---- MODULE Spec2Model ----
(***************************************************************************)
(* PReviewer: the pull-request review pipeline.                            *)
(*   previewer/orchestrator.py        PRReviewOrchestrator (review_pr,     *)
(*                                     _handle_file_analysis)               *)
(*   previewer/agents/file_analyzer.py FileAnalyzer (the Classifier)        *)
(*   previewer/agents/language_expert.py LanguageExpert (the Dispatcher)    *)
(*   previewer/agents/report_analyzer.py ReportAnalyzer (the Aggregator;    *)
(*                                     not among the sources, modelled from *)
(*                                     the design text)                     *)
(* Strings of the program (paths, URLs) are TLA+ strings; what the code     *)
(* computes from their characters (split, splitext, lower, int) is computed *)
(* here from their decomposition, given once per string in a table.         *)
(***************************************************************************)
EXTENDS Integers, Sequences, FiniteSets, TLC

(***************************************************************************)
(* Bounds.                                                                 *)
(***************************************************************************)
\* longest changed-file list the source-control client returns
MaxFiles == 3
\* longest file list handed to the Classifier on its own
MaxClassifierFiles == 4
\* the longest changed-file list of a pull request when two runs are interleaved
MaxFilesTwoRuns == 1

(***************************************************************************)
(* Python values.                                                          *)
(***************************************************************************)
\* Python's None, where a string is expected
None == "<None>"

\* Python's None, where a number is expected (pull-request numbers are positive)
NoneInt == 0

\* `not v` for an optional string
Falsy(v) == v = None \/ v = ""

\* dict.get(key, default)
Get(d, key, default) == IF key \in DOMAIN d THEN d[key] ELSE default

\* str.lower() on the pieces file names are made of here
LowerTable ==
    ("PY" :> "py") @@ ("PNG" :> "png") @@ ("Build" :> "build") @@ ("Main" :> "main")
      @@ ("README" :> "readme") @@ ("LOGO" :> "logo")

Lower(s) == IF s \in DOMAIN LowerTable THEN LowerTable[s] ELSE s

(***************************************************************************)
(* File paths.  PathParts[p] is p cut at '/' and each piece cut at '.':    *)
(* "src/app.min.js" is << <<"src">>, <<"app","min","js">> >>, ".git" is    *)
(* << <<"", "git">> >>.                                                    *)
(***************************************************************************)
PathParts ==
    ("src/app.py"          :> << <<"src">>, <<"app", "py">> >>)
 @@ ("src/util.py"         :> << <<"src">>, <<"util", "py">> >>)
 @@ ("web/x.js"            :> << <<"web">>, <<"x", "js">> >>)
 @@ ("logo.png"            :> << <<"logo", "png">> >>)
 @@ ("node_modules/x.js"   :> << <<"node_modules">>, <<"x", "js">> >>)
 @@ ("app.min.js"          :> << <<"app", "min", "js">> >>)
 @@ ("Build/Main.PY"       :> << <<"Build">>, <<"Main", "PY">> >>)
 @@ ("README"              :> << <<"README">> >>)
 @@ (".gitignore"          :> << <<"", "gitignore">> >>)
 @@ ("docs/.git/config"    :> << <<"docs">>, <<"", "git">>, <<"config">> >>)
 @@ ("LOGO.PNG"            :> << <<"LOGO", "PNG">> >>)
 @@ ("static"              :> << <<"static">> >>)

\* every path the Classifier is tried on
AllPaths == DOMAIN PathParts

\* the changed files a pull request of the pipeline runs may have
PrPaths == {"src/app.py", "src/util.py", "web/x.js", "logo.png", "node_modules/x.js"}

\* '.'.join(parts)
RECURSIVE JoinDots(_)
JoinDots(parts) ==
    IF Len(parts) = 0 THEN ""
    ELSE IF Len(parts) = 1 THEN parts[1]
    ELSE parts[1] \o "." \o JoinDots(Tail(parts))

\* os.path.splitext(p)[1]: from the last dot of the last path component, unless
\* only dots precede it there
splitext_ext(p) ==
    LET base == PathParts[p][Len(PathParts[p])]
        n == Len(base)
    IN  IF n >= 2 /\ \E i \in 1..(n - 1) : base[i] # ""
        THEN "." \o base[n]
        ELSE ""

\* file_path.split(os.path.sep), POSIX separator
split_sep(p) == [i \in 1..Len(PathParts[p]) |-> JoinDots(PathParts[p][i])]

\* lower() of a path component, piece by piece
LowerSegment(p, i) ==
    JoinDots([k \in 1..Len(PathParts[p][i]) |-> Lower(PathParts[p][i][k])])

\* lower() of an extension as splitext returns it
LowerExt(p) ==
    LET base == PathParts[p][Len(PathParts[p])]
    IN  IF splitext_ext(p) = "" THEN "" ELSE "." \o Lower(base[Len(base)])

(***************************************************************************)
(* FileAnalyzer (the Classifier).                                          *)
(***************************************************************************)
excluded_extensions ==
    {".png", ".jpg", ".jpeg", ".gif", ".svg", ".ico",
     ".ttf", ".woff", ".woff2", ".eot", ".pdf",
     ".mp3", ".mp4", ".wav", ".avi", ".mov",
     ".zip", ".tar", ".gz", ".rar",
     ".pyc", ".pyo", ".pyd",
     ".map", ".min.js", ".min.css"}

excluded_directories ==
    {"node_modules", "dist", "build", "assets",
     "static", "public", "vendor", ".git"}

get_file_extension(p) == LowerExt(p)

\* ExtensionPasses, were no extension excluded
ExtensionPasses_Always(p) == TRUE

\* the extension test of _is_relevant_file
ExtensionPasses(p) == LowerExt(p) \notin excluded_extensions

\* the directory test, were the file name itself left out of it
DirectoryPasses_ParentsOnly(p) ==
    \A i \in 1..(Len(split_sep(p)) - 1) : LowerSegment(p, i) \notin excluded_directories

\* the directory test of _is_relevant_file
DirectoryPasses(p) ==
    \A i \in 1..Len(split_sep(p)) : LowerSegment(p, i) \notin excluded_directories

\* _is_relevant_file, were the directory test left out
is_relevant_file_ExtensionOnly(p) == ExtensionPasses(p)

is_relevant_file(p) ==
    IF ~ExtensionPasses(p) THEN FALSE
    ELSE IF ~DirectoryPasses(p) THEN FALSE
    ELSE TRUE

\* relevant_files: the files that pass _is_relevant_file, in input order
RECURSIVE relevant_files(_)
relevant_files(files) ==
    IF files = <<>> THEN <<>>
    ELSE IF is_relevant_file(Head(files))
    THEN <<Head(files)>> \o relevant_files(Tail(files))
    ELSE relevant_files(Tail(files))

\* a Python dict as the sequence of its (key, value) items in insertion order
DictKeys(d) == [i \in 1..Len(d) |-> d[i].key]

HasKey(d, k) == \E i \in 1..Len(d) : d[i].key = k

\* AddToGroup, were the list of a known key replaced instead of appended to
AddToGroup_Overwrites(d, ext, file) ==
    IF HasKey(d, ext)
    THEN [i \in 1..Len(d) |-> IF d[i].key = ext THEN [key |-> ext, val |-> <<file>>] ELSE d[i]]
    ELSE Append(d, [key |-> ext, val |-> <<file>>])

\* AddToGroup, were a new key put in front of the others
AddToGroup_NewKeyFirst(d, ext, file) ==
    IF HasKey(d, ext)
    THEN [i \in 1..Len(d) |->
            IF d[i].key = ext THEN [key |-> ext, val |-> Append(d[i].val, file)] ELSE d[i]]
    ELSE << [key |-> ext, val |-> <<file>>] >> \o d

\* files_by_language[ext].append(file), the key created at the end when new
AddToGroup(d, ext, file) ==
    IF HasKey(d, ext)
    THEN [i \in 1..Len(d) |->
            IF d[i].key = ext THEN [key |-> ext, val |-> Append(d[i].val, file)] ELSE d[i]]
    ELSE Append(d, [key |-> ext, val |-> <<file>>])

RECURSIVE Categorize(_, _)
Categorize(d, files) ==
    IF files = <<>> THEN d
    ELSE Categorize(AddToGroup(d, get_file_extension(Head(files)), Head(files)), Tail(files))

\* files_by_language, were the groups made of all the files, not of the surviving ones
files_by_language_Unfiltered(files) == Categorize(<<>>, files)

files_by_language(files) == Categorize(<<>>, relevant_files(files))

Message(type, content, source) == [type |-> type, content |-> content, source |-> source]

FileAnalyzer_process_message(message) ==
    IF message.type = "file_analysis"
    THEN LET files == Get(message.content, "files", <<>>)
             pr_number == Get(message.content, "pr_number", NoneInt)
         IN  IF files = <<>>
             THEN << Message("error", [error |-> "No files to analyze"], "file_analyzer") >>
             ELSE IF relevant_files(files) = <<>>
             THEN << Message("error", [error |-> "No relevant files found"], "file_analyzer") >>
             ELSE << Message("file_analysis",
                             [files_by_language |-> files_by_language(files),
                              pr_number |-> pr_number],
                             "file_analyzer") >>
    ELSE << Message("error", [error |-> "Unsupported message type"], "file_analyzer") >>

(***************************************************************************)
(* LanguageExpert (the Dispatcher).                                        *)
(***************************************************************************)
language_map ==
    (".py" :> "Python") @@ (".js" :> "JavaScript") @@ (".ts" :> "TypeScript")
 @@ (".tsx" :> "TypeScript React") @@ (".jsx" :> "JavaScript React")
 @@ (".java" :> "Java") @@ (".cpp" :> "C++") @@ (".go" :> "Go")
 @@ (".rs" :> "Rust") @@ (".rb" :> "Ruby") @@ (".php" :> "PHP") @@ (".cs" :> "C#")

\* get_language_name, were Python the language of an extension not in the table
get_language_name_DefaultPython(ext) ==
    IF ext \in DOMAIN language_map THEN language_map[ext] ELSE "Python"

get_language_name(ext) == IF ext \in DOMAIN language_map THEN language_map[ext] ELSE "Unknown"

\* the dict of _load_best_practices
practices ==
    ("Python" :> <<"Use type hints", "Follow PEP 8", "Use meaningful variable names",
                   "Write docstrings", "Handle exceptions properly">>)
 @@ ("JavaScript" :> <<"Use const/let instead of var", "Use === instead of ==",
                       "Handle promises properly", "Use meaningful variable names",
                       "Add proper error handling">>)
 @@ ("TypeScript" :> <<"Use proper type annotations", "Avoid any type",
                       "Use interfaces for object shapes", "Use enums for constants",
                       "Follow naming conventions", "Handle null and undefined properly",
                       "Use async/await for asynchronous code",
                       "Implement proper error handling">>)
 @@ ("TypeScript React" :> <<"Use proper type annotations",
                             "Define prop types using interfaces",
                             "Use functional components with hooks",
                             "Implement proper error boundaries", "Use proper event handling",
                             "Follow React best practices", "Use proper state management",
                             "Handle side effects properly", "Implement proper accessibility",
                             "Use proper component composition">>)

\* _load_best_practices(language): practices.get(language, [])
load_best_practices(language) == Get(practices, language, <<>>)

\* the state LanguageExpert.__init__ builds for an extension
LanguageExpertState(ext) ==
    [agent_id |-> "language_expert_" \o ext,
     language |-> get_language_name(ext),
     reviewed_files |-> <<>>,
     reviews |-> <<>>]

\* The three requests _review_code sends to the model client, in its order.
ModelCallNames == <<"review", "best_practices", "suggestions">>

\* the outcomes of one _review_code: 0 when every request is answered, k when
\* request k is the first to fail (network error, malformed response)
ModelOutcomes == 0..3

\* review_code_calls, were the later requests made although one has failed
review_code_calls_AllThree(failAt) == ModelCallNames

\* the requests _review_code makes before it returns or raises
review_code_calls(failAt) ==
    IF failAt = 0 THEN ModelCallNames ELSE SubSeq(ModelCallNames, 1, failAt)

\* _review_code raises what the failing request raised (language_expert.py:131-133)
review_code_raises(failAt) == failAt # 0

\* str(e) of what a failing request raises
ModelFailure == "model request failed"

\* what _review_code returns when nothing fails
review_code_result(file_path) ==
    [review |-> "review of " \o file_path,
     best_practices_violations |-> "violations in " \o file_path,
     suggestions |-> "suggestions for " \o file_path]

\* self.state.reviews[file_path] = review
AddReview(reviews, file_path) ==
    IF HasKey(reviews, file_path)
    THEN [i \in 1..Len(reviews) |->
            IF reviews[i].key = file_path
            THEN [key |-> file_path, val |-> review_code_result(file_path)]
            ELSE reviews[i]]
    ELSE Append(reviews, [key |-> file_path, val |-> review_code_result(file_path)])

\* the test of line 47, were the content not looked at
missing_path_only(file_path, file_content) == Falsy(file_path)

\* `if not file_path or not file_content` (language_expert.py:47)
missing_path_or_content(file_path, file_content) == Falsy(file_path) \/ Falsy(file_content)

\* what a call of process_message comes to: the message returned (or nothing,
\* with raised, when an exception leaves it), the state left behind and the
\* requests made to the model client
Returned(msg, st, calls) == [msg |-> msg, state |-> st, calls |-> calls, raised |-> FALSE]

NoMessage == Message("none", <<>>, "")

\* review_and_catch, were the except clause missing: the exception leaves process_message
review_without_catch(st, file_path, pr_number, failAt) ==
    IF review_code_raises(failAt)
    THEN [msg |-> NoMessage, state |-> st, calls |-> review_code_calls(failAt), raised |-> TRUE]
    ELSE Returned(Message("review",
                          [file_path |-> file_path,
                           review |-> review_code_result(file_path),
                           pr_number |-> pr_number],
                          st.agent_id),
                  [st EXCEPT !.reviewed_files = Append(@, file_path),
                             !.reviews = AddReview(@, file_path)],
                  review_code_calls(failAt))

\* try: ... except Exception as e: return Message(ERROR, str(e)) (language_expert.py:56-76)
review_and_catch(st, file_path, pr_number, failAt) ==
    IF review_code_raises(failAt)
    THEN Returned(Message("error", [error |-> ModelFailure], st.agent_id),
                  st, review_code_calls(failAt))
    ELSE Returned(Message("review",
                          [file_path |-> file_path,
                           review |-> review_code_result(file_path),
                           pr_number |-> pr_number],
                          st.agent_id),
                  [st EXCEPT !.reviewed_files = Append(@, file_path),
                             !.reviews = AddReview(@, file_path)],
                  review_code_calls(failAt))

\* LanguageExpert.process_message, were the kind of the message not looked at
LanguageExpert_process_message_AnyKind(st, message, failAt) ==
    LET file_path == Get(message.content, "file_path", None)
        file_content == Get(message.content, "file_content", None)
        pr_number == Get(message.content, "pr_number", NoneInt)
    IN  IF missing_path_or_content(file_path, file_content)
        THEN Returned(Message("error", [error |-> "Missing file path or content"],
                              st.agent_id), st, <<>>)
        ELSE review_and_catch(st, file_path, pr_number, failAt)

\* LanguageExpert.process_message
LanguageExpert_process_message(st, message, failAt) ==
    IF message.type = "review_request"
    THEN LET file_path == Get(message.content, "file_path", None)
             file_content == Get(message.content, "file_content", None)
             pr_number == Get(message.content, "pr_number", NoneInt)
         IN  IF missing_path_or_content(file_path, file_content)
             THEN Returned(Message("error", [error |-> "Missing file path or content"],
                                   st.agent_id), st, <<>>)
             ELSE review_and_catch(st, file_path, pr_number, failAt)
    ELSE Returned(Message("error", [error |-> "Unsupported message type"], st.agent_id),
                  st, <<>>)

(***************************************************************************)
(* ReportAnalyzer (the Aggregator).  Its code is not among the sources; it *)
(* is modelled from the design text: each Review appends the file's        *)
(* finding to the report accumulated for its pr_number, the accumulated    *)
(* report is kept in final_reports and returned as a Report message; a     *)
(* failure is returned as an Error message or raised.                      *)
(***************************************************************************)
\* the pull-request numbers of the URLs below
PrNumbers == {42, 7}

ReportAnalyzerState == [final_reports |-> [n \in PrNumbers |-> <<>>]]

AggregatorOutcomes == {"report", "error", "raise"}

ReportAnalyzer_raises(message, outcome) == message.type = "review" /\ outcome = "raise"

ReportAnalyzer_state(st, message, outcome) ==
    IF message.type = "review" /\ outcome = "report"
    THEN [st EXCEPT !.final_reports[message.content.pr_number] =
                        Append(@, message.content.file_path)]
    ELSE st

ReportAnalyzer_process_message(st, message, outcome) ==
    IF message.type = "review"
    THEN IF outcome = "report"
         THEN << Message("report",
                         [report |-> ReportAnalyzer_state(st, message, outcome)
                                        .final_reports[message.content.pr_number],
                          pr_number |-> message.content.pr_number],
                         "report_analyzer") >>
         ELSE << Message("error", [error |-> "report generation failed"], "report_analyzer") >>
    ELSE << Message("error", [error |-> "Unsupported message type"], "report_analyzer") >>

(***************************************************************************)
(* Pull-request URLs.  UrlParts[u] is pr_url.split('/').                   *)
(***************************************************************************)
UrlParts ==
    ("https://github.com/acme/widgets/pull/42"
        :> <<"https:", "", "github.com", "acme", "widgets", "pull", "42">>)
 @@ ("https://github.com/other/lib/pull/7"
        :> <<"https:", "", "github.com", "other", "lib", "pull", "7">>)
 @@ ("https://github.com/acme/widgets/issues/7"
        :> <<"https:", "", "github.com", "acme", "widgets", "issues", "7">>)
 @@ ("https://github.com/acme/widgets"
        :> <<"https:", "", "github.com", "acme", "widgets">>)
 @@ ("https://github.com/acme/widgets/pull/"
        :> <<"https:", "", "github.com", "acme", "widgets", "pull", "">>)
 @@ ("https://github.com/acme/widgets/pull/42/files"
        :> <<"https:", "", "github.com", "acme", "widgets", "pull", "42", "files">>)
 @@ ("https://github.com/acme/widgets/pull/42abc"
        :> <<"https:", "", "github.com", "acme", "widgets", "pull", "42abc">>)
 @@ ("not-a-url" :> <<"not-a-url">>)
 @@ ("" :> <<"">>)

\* int(s) for the strings it accepts; it raises ValueError for the others
IntTable == ("42" :> 42) @@ ("7" :> 7)

\* the strings that end in the characters github.com
EndsWithGithubCom == {"github.com"}

\* the strings that begin with a decimal digit
StartsWithDigit == {"42", "7", "42abc"}

\* the longest run of decimal digits at the head of a string: what (\d+) takes
LeadingDigits == ("42" :> "42") @@ ("7" :> "7") @@ ("42abc" :> "42")

\* re.search(r"github\.com/([^/]+)/([^/]+)/pull/(\d+)", pr_url) finds a match
UrlMatches(u) ==
    LET parts == UrlParts[u]
    IN  \E i \in 1..Len(parts) :
            /\ i + 4 <= Len(parts)
            /\ parts[i] \in EndsWithGithubCom
            /\ parts[i + 1] # ""
            /\ parts[i + 2] # ""
            /\ parts[i + 3] = "pull"
            /\ parts[i + 4] \in StartsWithDigit

\* where the leftmost match of the pattern begins
MatchAt(u) ==
    LET parts == UrlParts[u]
        at == { i \in 1..Len(parts) :
                  /\ i + 4 <= Len(parts)
                  /\ parts[i] \in EndsWithGithubCom
                  /\ parts[i + 1] # ""
                  /\ parts[i + 2] # ""
                  /\ parts[i + 3] = "pull"
                  /\ parts[i + 4] \in StartsWithDigit }
    IN  CHOOSE i \in at : \A j \in at : i <= j

\* extract_repo_info, were it to take the parts by position as review_pr does
extract_repo_info_Positional(u) ==
    LET parts == UrlParts[u]
    IN  IF Len(parts) < 5 \/ parts[Len(parts)] \notin DOMAIN IntTable
        THEN [raised |-> TRUE, owner |-> None, repo |-> None, pr_number |-> NoneInt]
        ELSE [raised |-> FALSE, owner |-> parts[4], repo |-> parts[5],
              pr_number |-> IntTable[parts[Len(parts)]]]

\* extract_repo_info(pr_url) of utils/github_utils.py: ValueError without a
\* match, else the three groups of the match, the third through int()
extract_repo_info(u) ==
    IF ~UrlMatches(u)
    THEN [raised |-> TRUE, owner |-> None, repo |-> None, pr_number |-> NoneInt]
    ELSE LET parts == UrlParts[u]
             i == MatchAt(u)
         IN  [raised |-> FALSE, owner |-> parts[i + 1], repo |-> parts[i + 2],
              pr_number |-> IntTable[LeadingDigits[parts[i + 4]]]]

\* _extract_repo_name raises IndexError: parts[3] or parts[4] does not exist
extract_repo_name_raises(u) == Len(UrlParts[u]) < 5

\* _extract_repo_name: f"{parts[3]}/{parts[4]}", indices from 0
extract_repo_name(u) == UrlParts[u][4] \o "/" \o UrlParts[u][5]

\* int(pr_url.split('/')[-1]) raises ValueError
extract_pr_number_raises(u) == UrlParts[u][Len(UrlParts[u])] \notin DOMAIN IntTable

extract_pr_number(u) == IntTable[UrlParts[u][Len(UrlParts[u])]]

(***************************************************************************)
(* The state.                                                              *)
(*   state            PRReviewOrchestratorState: pr_url, repo_name,        *)
(*                    pr_number, status (one per orchestrator, shared by   *)
(*                    its runs)                                            *)
(*   report_analyzer  the Aggregator's state                               *)
(*   openai_api_key   whether OPENAI_API_KEY is set in the environment     *)
(*   run              the calls of review_pr: for each, the position of    *)
(*                    the generator (pc), its argument and locals, and the *)
(*                    trace of what it did (log): the events it yielded    *)
(*                    and the calls it made, in order                      *)
(*   probe            a stage driven on its own, outside a run             *)
(***************************************************************************)
VARIABLES state, report_analyzer, openai_api_key, run, probe

vars == <<state, report_analyzer, openai_api_key, run, probe>>

\* an entry of a run's trace
Entry(k, a, f, ext, repo, n, res, data) ==
    [k |-> k, a |-> a, f |-> f, ext |-> ext, repo |-> repo, n |-> n, res |-> res,
     data |-> data]

\* a progress event handed to the caller by `yield`
Yield(a, f, ext, n, res) == Entry("yield", a, f, ext, "", n, res, <<>>)

\* the event that carries a report: json.dumps({"type": "review", "message": report})
YieldReport(report) == Entry("yield", "review", "", "", "", 0, "", report)

\* a call of a collaborator
Call(a, f, ext, repo, n, res) == Entry("call", a, f, ext, repo, n, res, <<>>)

NoExpert == [agent_id |-> "", language |-> "", reviewed_files |-> <<>>, reviews |-> <<>>]

\* the host entry points that call review_pr: the streaming endpoint
\* (api.py:61-77), POST /api/review (api.py:109-157), the command line (main.py)
Hosts == {"review_pr_stream", "review_pr", "main"}

\* the host iterates the generator that review_pr returns: api.py:68 does
\* (`async for step in orchestrator.review_pr(...)`); api.py:127 and main.py:17
\* call review_pr and drop the generator
Iterates(caller) == caller = "review_pr_stream"

\* the report a host has when no report was read
NoReport == << "No report generated" >>

\* what a host has returned: nothing yet
NoHostResult == [returned |-> FALSE, success |-> FALSE, report |-> NoReport, steps |-> <<>>]

\* review_pr(pr_url) called: the generator exists, its body has not started
NewRun(pr_url) ==
    [pc |-> "created", pr_url |-> pr_url, pr |-> [repo |-> None, number |-> NoneInt],
     files |-> <<>>, resp |-> <<>>, iterated |-> FALSE, groups |-> <<>>, gi |-> 0, fi |-> 0,
     expert |-> NoExpert, content |-> None, rr |-> <<>>, log |-> <<>>,
     caller |-> "review_pr_stream", host |-> NoHostResult, cancelled |-> FALSE,
     stream |-> <<>>]

\* review_pr(pr_url) called by one of the hosts
NewRunBy(pr_url, caller) == [NewRun(pr_url) EXCEPT !.caller = caller]

\* the positions at which the generator is suspended in a yield
YieldPcs ==
    {"y_init", "y_extract", "y_fetch_pr", "y_fetch_files", "y_nofiles", "y_results",
     "y_fa_error", "y_noresp", "y_group", "y_analyzing", "y_report", "y_report_error",
     "y_file_error", "y_file_exc", "y_completed", "y_error"}

\* the generator has ended: exhausted, or an exception left it
EndPcs == {"closed", "raised"}

\* between two yields the generator runs without giving up the thread
Running(r) == run[r].pc \notin YieldPcs \cup EndPcs \cup {"created"}

\* Scheduled, were a generator resumed although its caller has given it up
Scheduled_IgnoresCancel(r) == \A q \in DOMAIN run \ {r} : ~Running(q)

\* run r may take a step: its caller has not given it up, and no other run is
\* in the middle of a step
Scheduled(r) == ~run[r].cancelled /\ \A q \in DOMAIN run \ {r} : ~Running(q)

Emit(rec, pc, entries) == [rec EXCEPT !.pc = pc, !.log = @ \o entries]

\* HandleException, were the handler to raise again without its event
HandleException_NoEvent(rec, entries, what) == Emit(rec, "y_error", entries)

\* except Exception as e: yield f"Error during PR review: {e}" (orchestrator.py:133-136)
HandleException(rec, entries, what) ==
    Emit(rec, "y_error", entries \o << Yield("Error during PR review", "", "", 0, what) >>)

Effect(rec, st) == [rec |-> rec, state |-> st]

SetRun(r, rec) == run' = [run EXCEPT ![r] = rec]

\* the changed-file lists the source-control client may return
RECURSIVE SeqsUpTo(_, _)
SeqsUpTo(S, n) ==
    IF n = 0 THEN { <<>> }
    ELSE LET shorter == SeqsUpTo(S, n - 1)
         IN  shorter \cup { Append(q, e) : q \in { t \in shorter : Len(t) = n - 1 }, e \in S }

Distinct(q) == \A i, j \in 1..Len(q) : i # j => q[i] # q[j]

FileLists(S, n) == { q \in SeqsUpTo(S, n) : Distinct(q) }

\* the paths and the lists of them that a pull request has when two runs are
\* interleaved
TwoRunPaths == {"src/app.py", "logo.png"}

\* what pr.get_files() may list
PrFileLists ==
    IF Cardinality(DOMAIN run) > 1
    THEN FileLists(TwoRunPaths, MaxFilesTwoRuns)
    ELSE FileLists(PrPaths, MaxFiles)

\* what get_pr_file_content returns: the text, or None (not found, a directory,
\* any exception), or an empty text
FetchResults == {"print(1)", None, ""}

(***************************************************************************)
(* PRReviewOrchestrator.review_pr and _handle_file_analysis, as the        *)
(* generator runs them: one step per stretch of code between two           *)
(* suspensions, cut further at the head of the file loop.                  *)
(***************************************************************************)
\* self.state.status = "done"; yield "Review completed successfully" (129-131)
Complete(rec, st) ==
    Effect(Emit(rec, "y_completed", << Yield("Review completed successfully", "", "", 0, "") >>),
           [st EXCEPT !.status = "done"])

\* for response in response (113-123) from the head of the loop, rec.resp being
\* what is left to iterate, and what follows the loop (125-131)
RECURSIVE ResponseLoop(_, _)
ResponseLoop(rec, st) ==
    IF rec.resp = <<>>
    THEN IF ~rec.iterated
         THEN \* `if not response`: the name still holds the list, and it is empty
              Effect(Emit(rec, "y_noresp", << Yield("No files to analyze", "", "", 0, "") >>), st)
         ELSE Complete(rec, st)
    ELSE LET response == Head(rec.resp)
             rec1 == [rec EXCEPT !.iterated = TRUE]
         IN  IF response.type = "file_analysis"
             THEN Effect(Emit(rec1, "y_results",
                              << Yield("Processing file analysis results", "", "", 0, "") >>), st)
             ELSE IF response.type = "error"
             THEN Effect(Emit(rec1, "y_fa_error",
                              << Yield("Error during file analysis", "", "", 0,
                                       Get(response.content, "error", "Unknown error")) >>), st)
             ELSE ResponseLoop([rec1 EXCEPT !.resp = Tail(@)], st)

\* NextGroup, were _handle_file_analysis to return after its first group
NextGroup_FirstGroupOnly(rec, st) ==
    IF rec.gi >= 1
    THEN ResponseLoop([rec EXCEPT !.resp = Tail(@)], st)
    ELSE LET g == rec.groups[rec.gi + 1]
         IN  Effect(Emit([rec EXCEPT !.gi = @ + 1, !.fi = 0], "y_group",
                         << Yield("Processing files", "", g.key, Len(g.val), "") >>), st)

\* for extension, files in files_by_language.items() (148-150) from the head of
\* the loop, group rec.gi being the last one done; past the last group
\* _handle_file_analysis returns into the loop of review_pr
NextGroup(rec, st) ==
    IF rec.gi >= Len(rec.groups)
    THEN ResponseLoop([rec EXCEPT !.resp = Tail(@)], st)
    ELSE LET g == rec.groups[rec.gi + 1]
         IN  Effect(Emit([rec EXCEPT !.gi = @ + 1, !.fi = 0], "y_group",
                         << Yield("Processing files", "", g.key, Len(g.val), "") >>), st)

\* for report_response in report_responses (189-206) from the head of the loop,
\* rec.rr being what is left to iterate; past it, the next file
RECURSIVE ReportLoop(_)
ReportLoop(rec) ==
    IF rec.rr = <<>>
    THEN [rec EXCEPT !.pc = "files", !.fi = @ + 1]
    ELSE LET report_response == Head(rec.rr)
         IN  IF report_response.type = "report"
             THEN Emit(rec, "y_report",
                       << YieldReport(Get(report_response.content, "report", <<>>)) >>)
             ELSE IF report_response.type = "error"
             THEN Emit(rec, "y_report_error",
                       << Yield("Error generating report", "", "", 0,
                                Get(report_response.content, "error", "Unknown error")) >>)
             ELSE ReportLoop([rec EXCEPT !.rr = Tail(@)])

CurrentExt(rec) == rec.groups[rec.gi].key

\* CurrentFile, were the files of a group taken from the last to the first
CurrentFile_Reversed(rec) ==
    rec.groups[rec.gi].val[Len(rec.groups[rec.gi].val) - rec.fi + 1]

\* for file_path in files (157): the file the loop is at
CurrentFile(rec) == rec.groups[rec.gi].val[rec.fi]

\* lines 54-61: the first resumption
ReviewPrStart(r) ==
    /\ run[r].pc = "created"
    /\ Iterates(run[r].caller)
    /\ Scheduled(r)
    /\ state' = [state EXCEPT !.pr_url = run[r].pr_url, !.status = "reviewing"]
    /\ SetRun(r, Emit(run[r], "y_init", << Yield("Initializing PR Review", "", "", 0, "") >>))
    /\ UNCHANGED <<report_analyzer, openai_api_key, probe>>

\* InitAgents, were the event of line 78 the one of line 85
InitAgents_WrongEvent(r) ==
    /\ run[r].pc = "y_init"
    /\ Scheduled(r)
    /\ SetRun(r, Emit(run[r], "y_extract", << Yield("Fetching PR from GitHub", "", "", 0, "") >>))
    /\ UNCHANGED <<state, report_analyzer, openai_api_key, probe>>

\* lines 63-78: _init_github and _init_agents find the client and the agents
\* that __init__ made (45-49) and change nothing
InitAgents(r) ==
    /\ run[r].pc = "y_init"
    /\ Scheduled(r)
    /\ SetRun(r, Emit(run[r], "y_extract", << Yield("Extracting PR information", "", "", 0, "") >>))
    /\ UNCHANGED <<state, report_analyzer, openai_api_key, probe>>

\* lines 79-85, and 133-136 when a line raises
ExtractPrInfo(r) ==
    /\ run[r].pc = "y_extract"
    /\ Scheduled(r)
    /\ LET u == run[r].pr_url
       IN  IF extract_repo_name_raises(u)
           THEN /\ SetRun(r, HandleException(run[r], <<>>, "IndexError"))
                /\ UNCHANGED state
           ELSE IF extract_pr_number_raises(u)
           THEN /\ SetRun(r, HandleException(run[r], <<>>, "ValueError"))
                /\ state' = [state EXCEPT !.repo_name = extract_repo_name(u)]
           ELSE /\ SetRun(r, Emit(run[r], "y_fetch_pr",
                                  << Yield("Fetching PR from GitHub", "", "", 0, "") >>))
                /\ state' = [state EXCEPT !.repo_name = extract_repo_name(u),
                                          !.pr_number = extract_pr_number(u)]
    /\ UNCHANGED <<report_analyzer, openai_api_key, probe>>

\* lines 86-92: get_repo and get_pull succeed or raise
FetchPr(r) ==
    /\ run[r].pc = "y_fetch_pr"
    /\ Scheduled(r)
    /\ \E outcome \in {"ok", "get_repo", "get_pull"} :
         LET get_repo == Call("get_repo", "", "", state.repo_name, 0,
                              IF outcome = "get_repo" THEN "raised" ELSE "ok")
             get_pull == Call("get_pull", "", "", state.repo_name, state.pr_number,
                              IF outcome = "get_pull" THEN "raised" ELSE "ok")
         IN  IF outcome = "get_repo"
             THEN SetRun(r, HandleException(run[r], <<get_repo>>, "GithubException"))
             ELSE IF outcome = "get_pull"
             THEN SetRun(r, HandleException(run[r], <<get_repo, get_pull>>, "GithubException"))
             ELSE SetRun(r, Emit([run[r] EXCEPT !.pr = [repo |-> state.repo_name,
                                                        number |-> state.pr_number]],
                                 "y_fetch_files",
                                 << get_repo, get_pull, Yield("Fetching PR files", "", "", 0, "") >>))
    /\ UNCHANGED <<state, report_analyzer, openai_api_key, probe>>

\* lines 93-123: the file list, the empty list, the Classifier and its first response
FetchFiles(r) ==
    /\ run[r].pc = "y_fetch_files"
    /\ Scheduled(r)
    /\ \/ /\ SetRun(r, HandleException(run[r],
                         << Call("get_files", "", "", run[r].pr.repo, run[r].pr.number, "raised") >>,
                         "GithubException"))
          /\ UNCHANGED state
       \/ \E files \in PrFileLists :
            LET get_files == Call("get_files", "", "", run[r].pr.repo, run[r].pr.number, "ok")
            IN  IF files = <<>>
                THEN /\ SetRun(r, Emit(run[r], "y_nofiles",
                                       << get_files, Yield("No files found to analyze", "", "", 0, "") >>))
                     /\ UNCHANGED state
                ELSE LET response == FileAnalyzer_process_message(
                                         Message("file_analysis",
                                                 [files |-> files, pr_number |-> state.pr_number],
                                                 "orchestrator"))
                         rec == [run[r] EXCEPT !.files = files, !.resp = response,
                                               !.log = @ \o << get_files,
                                                    Entry("call", "FileAnalyzer.process_message", "", "", "",
                                                          Len(files), "", response) >>]
                         eff == ResponseLoop(rec, state)
                     IN  /\ SetRun(r, eff.rec)
                         /\ state' = eff.state
    /\ UNCHANGED <<report_analyzer, openai_api_key, probe>>

\* NoFilesReturn, were the `return` of line 101 missing: the empty list goes on
\* to the Classifier
NoFilesReturn_FallsThrough(r) ==
    /\ run[r].pc = "y_nofiles"
    /\ Scheduled(r)
    /\ LET response == FileAnalyzer_process_message(
                           Message("file_analysis",
                                   [files |-> <<>>, pr_number |-> state.pr_number],
                                   "orchestrator"))
           rec == [run[r] EXCEPT !.resp = response,
                                 !.log = Append(@, Entry("call", "FileAnalyzer.process_message",
                                                         "", "", "", 0, "", response))]
           eff == ResponseLoop(rec, state)
       IN  SetRun(r, eff.rec) /\ state' = eff.state
    /\ UNCHANGED <<report_analyzer, openai_api_key, probe>>

\* lines 100-101: return after "No files found to analyze"
NoFilesReturn(r) ==
    /\ run[r].pc = "y_nofiles"
    /\ Scheduled(r)
    /\ SetRun(r, [run[r] EXCEPT !.pc = "closed"])
    /\ UNCHANGED <<state, report_analyzer, openai_api_key, probe>>

\* lines 123-131: after the Classifier's Error event the loop goes on
AfterClassifierError(r) ==
    /\ run[r].pc = "y_fa_error"
    /\ Scheduled(r)
    /\ LET eff == ResponseLoop([run[r] EXCEPT !.resp = Tail(@)], state)
       IN  SetRun(r, eff.rec) /\ state' = eff.state
    /\ UNCHANGED <<report_analyzer, openai_api_key, probe>>

\* lines 118 and 139-150: into _handle_file_analysis, up to the first group's event
HandleFileAnalysis(r) ==
    /\ run[r].pc = "y_results"
    /\ Scheduled(r)
    /\ LET by_language == Get(Head(run[r].resp).content, "files_by_language", <<>>)
           rec == [run[r] EXCEPT !.groups = by_language, !.gi = 0]
           eff == IF by_language = <<>>
                  THEN ResponseLoop([rec EXCEPT !.resp = Tail(@)], state)
                  ELSE NextGroup(rec, state)
       IN  SetRun(r, eff.rec) /\ state' = eff.state
    /\ UNCHANGED <<report_analyzer, openai_api_key, probe>>

\* line 154: LanguageExpert(extension), which raises ValueError without
\* OPENAI_API_KEY (language_expert.py:33-35); the raise is caught at 133
CreateExpert(r) ==
    /\ run[r].pc = "y_group"
    /\ Scheduled(r)
    /\ LET ext == CurrentExt(run[r])
       IN  IF ~openai_api_key
           THEN SetRun(r, HandleException(run[r],
                            << Call("LanguageExpert", "", ext, "", 0, "raised") >>, "ValueError"))
           ELSE SetRun(r, [run[r] EXCEPT !.pc = "files", !.fi = 1,
                                         !.expert = LanguageExpertState(ext),
                                         !.log = Append(@, Call("LanguageExpert", "", ext, "", 0, "ok"))])
    /\ UNCHANGED <<state, report_analyzer, openai_api_key, probe>>

\* FileLoop, were a file without content reported with an error event
FileLoop_ReportsSkip(r) ==
    /\ run[r].pc = "files"
    /\ Scheduled(r)
    /\ IF run[r].fi > Len(run[r].groups[run[r].gi].val)
       THEN LET eff == NextGroup(run[r], state)
            IN  SetRun(r, eff.rec) /\ state' = eff.state
       ELSE /\ UNCHANGED state
            /\ \E content \in FetchResults :
                 LET file_path == CurrentFile(run[r])
                     fetch == Call("get_pr_file_content", file_path, CurrentExt(run[r]),
                                   state.repo_name, state.pr_number,
                                   IF Falsy(content) THEN "none" ELSE "ok")
                 IN  IF Falsy(content)
                     THEN SetRun(r, Emit(run[r], "y_file_error",
                                         << fetch, Yield("Error analyzing", file_path, "", 0,
                                                         "no content") >>))
                     ELSE SetRun(r, Emit([run[r] EXCEPT !.content = content], "y_analyzing",
                                         << fetch, Yield("Analyzing", file_path, "", 0, "") >>))
    /\ UNCHANGED <<report_analyzer, openai_api_key, probe>>

\* lines 157-170: the head of the file loop; the content is fetched, and a file
\* without content is passed over
FileLoop(r) ==
    /\ run[r].pc = "files"
    /\ Scheduled(r)
    /\ IF run[r].fi > Len(run[r].groups[run[r].gi].val)
       THEN LET eff == NextGroup(run[r], state)
            IN  SetRun(r, eff.rec) /\ state' = eff.state
       ELSE /\ UNCHANGED state
            /\ \E content \in FetchResults :
                 LET file_path == CurrentFile(run[r])
                     fetch == Call("get_pr_file_content", file_path, CurrentExt(run[r]),
                                   state.repo_name, state.pr_number,
                                   IF Falsy(content) THEN "none" ELSE "ok")
                 IN  IF Falsy(content)
                     THEN SetRun(r, [run[r] EXCEPT !.fi = @ + 1, !.log = Append(@, fetch)])
                     ELSE SetRun(r, Emit([run[r] EXCEPT !.content = content], "y_analyzing",
                                         << fetch, Yield("Analyzing", file_path, "", 0, "") >>))
    /\ UNCHANGED <<report_analyzer, openai_api_key, probe>>

\* RequestReview, were the Dispatcher's Error messages handed to the Aggregator too
RequestReview_MergesErrors(r) ==
    /\ run[r].pc = "y_analyzing"
    /\ Scheduled(r)
    /\ \E failAt \in ModelOutcomes, outcome \in AggregatorOutcomes :
         LET rec == run[r]
             file_path == CurrentFile(rec)
             ext == CurrentExt(rec)
             request == Message("review_request",
                                [file_path |-> file_path, file_content |-> rec.content,
                                 pr_number |-> state.pr_number],
                                "orchestrator")
             res == LanguageExpert_process_message(rec.expert, request, failAt)
             response == res.msg
             asked == << Call("LanguageExpert.process_message", file_path, ext, "",
                              state.pr_number, IF res.raised THEN "raised" ELSE response.type) >>
                      \o [i \in 1..Len(res.calls) |->
                            Call("openai", file_path, res.calls[i], "", i,
                                 IF i = failAt THEN "raised" ELSE "ok")]
             rec1 == [rec EXCEPT !.expert = res.state, !.log = @ \o asked]
             merge == Call("ReportAnalyzer.process_message", file_path, "", "",
                           Get(response.content, "pr_number", 0), outcome)
         IN  IF res.raised
             THEN /\ outcome = "report"
                  /\ UNCHANGED report_analyzer
                  /\ SetRun(r, Emit([rec EXCEPT !.log = @ \o asked], "y_file_exc",
                                    << Yield("Error processing", file_path, "", 0, "") >>))
             ELSE IF response.type \in {"review", "error"}
             THEN IF ReportAnalyzer_raises(response, outcome)
                  THEN /\ SetRun(r, Emit(rec1, "y_file_exc",
                                         << merge, Yield("Error processing", file_path, "", 0, "") >>))
                       /\ UNCHANGED report_analyzer
                  ELSE /\ SetRun(r, ReportLoop(
                              [rec1 EXCEPT !.rr = ReportAnalyzer_process_message(
                                                      report_analyzer, response, outcome),
                                           !.log = Append(@, merge)]))
                       /\ report_analyzer' = ReportAnalyzer_state(report_analyzer, response, outcome)
             ELSE /\ outcome = "report"
                  /\ UNCHANGED report_analyzer
                  /\ IF response.type = "error"
                     THEN SetRun(r, Emit(rec1, "y_file_error",
                                         << Yield("Error analyzing", file_path, "", 0,
                                                  Get(response.content, "error", "Unknown error")) >>))
                     ELSE SetRun(r, [rec1 EXCEPT !.pc = "files", !.fi = @ + 1])
    /\ UNCHANGED <<state, openai_api_key, probe>>

\* lines 172-215: the Dispatcher, the Aggregator, and the first event that follows
RequestReview(r) ==
    /\ run[r].pc = "y_analyzing"
    /\ Scheduled(r)
    /\ \E failAt \in ModelOutcomes, outcome \in AggregatorOutcomes :
         LET rec == run[r]
             file_path == CurrentFile(rec)
             ext == CurrentExt(rec)
             request == Message("review_request",
                                [file_path |-> file_path, file_content |-> rec.content,
                                 pr_number |-> state.pr_number],
                                "orchestrator")
             res == LanguageExpert_process_message(rec.expert, request, failAt)
             response == res.msg
             asked == << Call("LanguageExpert.process_message", file_path, ext, "",
                              state.pr_number, IF res.raised THEN "raised" ELSE response.type) >>
                      \o [i \in 1..Len(res.calls) |->
                            Call("openai", file_path, res.calls[i], "", i,
                                 IF i = failAt THEN "raised" ELSE "ok")]
             rec1 == [rec EXCEPT !.expert = res.state, !.log = @ \o asked]
             merge == Call("ReportAnalyzer.process_message", file_path, "", "",
                           Get(response.content, "pr_number", 0), outcome)
         IN  IF res.raised
             THEN /\ outcome = "report"
                  /\ UNCHANGED report_analyzer
                  /\ SetRun(r, Emit([rec EXCEPT !.log = @ \o asked], "y_file_exc",
                                    << Yield("Error processing", file_path, "", 0, "") >>))
             ELSE IF response.type = "review"
             THEN IF ReportAnalyzer_raises(response, outcome)
                  THEN /\ SetRun(r, Emit(rec1, "y_file_exc",
                                         << merge, Yield("Error processing", file_path, "", 0, "") >>))
                       /\ UNCHANGED report_analyzer
                  ELSE /\ SetRun(r, ReportLoop(
                              [rec1 EXCEPT !.rr = ReportAnalyzer_process_message(
                                                      report_analyzer, response, outcome),
                                           !.log = Append(@, merge)]))
                       /\ report_analyzer' = ReportAnalyzer_state(report_analyzer, response, outcome)
             ELSE /\ outcome = "report"
                  /\ UNCHANGED report_analyzer
                  /\ IF response.type = "error"
                     THEN SetRun(r, Emit(rec1, "y_file_error",
                                         << Yield("Error analyzing", file_path, "", 0,
                                                  Get(response.content, "error", "Unknown error")) >>))
                     ELSE SetRun(r, [rec1 EXCEPT !.pc = "files", !.fi = @ + 1])
    /\ UNCHANGED <<state, openai_api_key, probe>>

\* lines 201 and 206: after a report event or a report error event, the rest of
\* the Aggregator's responses
AfterReportEvent(r) ==
    /\ run[r].pc \in {"y_report", "y_report_error"}
    /\ Scheduled(r)
    /\ SetRun(r, ReportLoop([run[r] EXCEPT !.rr = Tail(@)]))
    /\ UNCHANGED <<state, report_analyzer, openai_api_key, probe>>

\* AfterFileError, were a per-file error to end the run instead of going on
AfterFileError_EndsRun(r) ==
    /\ run[r].pc \in {"y_file_error", "y_file_exc"}
    /\ Scheduled(r)
    /\ SetRun(r, [run[r] EXCEPT !.pc = "closed"])
    /\ UNCHANGED <<state, report_analyzer, openai_api_key, probe>>

\* lines 211 and 215: after a per-file error event, the next file
AfterFileError(r) ==
    /\ run[r].pc \in {"y_file_error", "y_file_exc"}
    /\ Scheduled(r)
    /\ SetRun(r, [run[r] EXCEPT !.pc = "files", !.fi = @ + 1])
    /\ UNCHANGED <<state, report_analyzer, openai_api_key, probe>>

\* line 131: after "Review completed successfully" the generator is exhausted
Finish(r) ==
    /\ run[r].pc = "y_completed"
    /\ Scheduled(r)
    /\ SetRun(r, [run[r] EXCEPT !.pc = "closed"])
    /\ UNCHANGED <<state, report_analyzer, openai_api_key, probe>>

\* Reraise, were the `raise` of line 137 missing: the sequence ends normally
Reraise_Swallowed(r) ==
    /\ run[r].pc = "y_error"
    /\ Scheduled(r)
    /\ SetRun(r, [run[r] EXCEPT !.pc = "closed"])
    /\ UNCHANGED <<state, report_analyzer, openai_api_key, probe>>

\* line 137: after the error event the exception is raised again, into the caller
Reraise(r) ==
    /\ run[r].pc = "y_error"
    /\ Scheduled(r)
    /\ SetRun(r, [run[r] EXCEPT !.pc = "raised"])
    /\ UNCHANGED <<state, report_analyzer, openai_api_key, probe>>

\* the caller stops consuming at a progress event: the generator stays
\* suspended at its yield and is closed there (GeneratorExit, or the
\* CancelledError of the stream's task, neither of them an Exception that the
\* handlers of lines 133 and 213 catch), so no line of it runs any more
Cancel(r) ==
    /\ run[r].pc \in YieldPcs
    /\ ~run[r].cancelled
    /\ SetRun(r, [run[r] EXCEPT !.cancelled = TRUE])
    /\ UNCHANGED <<state, report_analyzer, openai_api_key, probe>>

\* the URLs review_pr is called with
RunUrls == DOMAIN UrlParts

NoProbe == [agent |-> "none"]

Init ==
    /\ state = [pr_url |-> None, repo_name |-> None, pr_number |-> NoneInt, status |-> "ready"]
    /\ report_analyzer = ReportAnalyzerState
    /\ openai_api_key \in BOOLEAN
    /\ run \in [{1} -> {NewRun(u) : u \in RunUrls}]
    /\ probe = NoProbe

Next ==
    \/ \E r \in DOMAIN run : ReviewPrStart(r)
    \/ \E r \in DOMAIN run : InitAgents(r)
    \/ \E r \in DOMAIN run : ExtractPrInfo(r)
    \/ \E r \in DOMAIN run : FetchPr(r)
    \/ \E r \in DOMAIN run : FetchFiles(r)
    \/ \E r \in DOMAIN run : NoFilesReturn(r)
    \/ \E r \in DOMAIN run : AfterClassifierError(r)
    \/ \E r \in DOMAIN run : HandleFileAnalysis(r)
    \/ \E r \in DOMAIN run : CreateExpert(r)
    \/ \E r \in DOMAIN run : FileLoop(r)
    \/ \E r \in DOMAIN run : RequestReview(r)
    \/ \E r \in DOMAIN run : AfterReportEvent(r)
    \/ \E r \in DOMAIN run : AfterFileError(r)
    \/ \E r \in DOMAIN run : Finish(r)
    \/ \E r \in DOMAIN run : Reraise(r)
    \/ \E r \in DOMAIN run : Cancel(r)

\* one call of review_pr on a new orchestrator, for every URL and every behaviour
\* of the source-control client, the model client and the Aggregator
Spec == Init /\ [][Next]_vars

\* two calls of review_pr on one orchestrator, for two pull requests; each runs
\* from one yield to the next without giving up the thread, and the caller may
\* resume either of them at any suspension
InitTwoRuns ==
    /\ state = [pr_url |-> None, repo_name |-> None, pr_number |-> NoneInt, status |-> "ready"]
    /\ report_analyzer = ReportAnalyzerState
    /\ openai_api_key \in BOOLEAN
    /\ run = (1 :> NewRun("https://github.com/acme/widgets/pull/42"))
           @@ (2 :> NewRun("https://github.com/other/lib/pull/7"))
    /\ probe = NoProbe

SpecTwoRuns == InitTwoRuns /\ [][Next]_vars

(***************************************************************************)
(* The hosts.  Each makes a new orchestrator and calls review_pr once.     *)
(***************************************************************************)
\* api.py:130-135: the report the host reads from the Aggregator's state
final_report ==
    IF \E n \in PrNumbers : report_analyzer.final_reports[n] # <<>>
    THEN IF state.pr_number \in PrNumbers
            /\ report_analyzer.final_reports[state.pr_number] # <<>>
         THEN report_analyzer.final_reports[state.pr_number]
         ELSE NoReport
    ELSE NoReport

\* POST /api/review (api.py:109-157): orchestrator.review_pr(request.pr_url) makes
\* the generator, which is dropped; the report is read and the response returned
ApiReview(r) ==
    /\ run[r].caller = "review_pr"
    /\ ~run[r].host.returned
    /\ SetRun(r, [run[r] EXCEPT !.host =
                    [returned |-> TRUE, success |-> TRUE, report |-> final_report,
                     steps |-> <<"Initializing PR Review", "PR Review Completed",
                                 "Report Generated">>]])
    /\ UNCHANGED <<state, report_analyzer, openai_api_key, probe>>

\* main (main.py:6-17): reviewer.review_pr(pr_url) makes the generator, which is
\* dropped; main returns
Main(r) ==
    /\ run[r].caller = "main"
    /\ ~run[r].host.returned
    /\ SetRun(r, [run[r] EXCEPT !.host = [NoHostResult EXCEPT !.returned = TRUE]])
    /\ UNCHANGED <<state, report_analyzer, openai_api_key, probe>>

\* async def log_message(message, message_type="progress") (api.py:58-59): the
\* event sent, json.dumps({'type': message_type, 'message': message})
log_message(message, message_type) == [type |-> message_type, message |-> message]

\* api.py:64-69: the progress events of the stream so far, its own first event
\* and one for every step the generator has yielded
StreamProgress(rec) ==
    LET steps == SelectSeq(rec.log, LAMBDA e : e.k = "yield")
    IN  << log_message("Initializing PR Review", "progress") >>
        \o [i \in 1..Len(steps) |-> log_message(steps[i].a, "progress")]

\* StreamEnd, were the completion event sent in a finally clause
StreamEnd_CompleteInFinally(r) ==
    /\ run[r].caller = "review_pr_stream"
    /\ ~run[r].host.returned
    /\ run[r].pc \in EndPcs
    /\ SetRun(r, [run[r] EXCEPT
            !.host = [NoHostResult EXCEPT !.returned = TRUE, !.success = (run[r].pc = "closed")],
            !.stream = StreamProgress(run[r])
                       \o (IF run[r].pc = "closed" THEN <<>>
                           ELSE << log_message("Error", "error") >>)
                       \o << log_message("Review completed successfully", "complete") >>])
    /\ UNCHANGED <<state, report_analyzer, openai_api_key, probe>>

\* review_pr_stream (api.py:61-77) past its loop: the generator exhausted, the
\* completion event is sent (72); an exception raised out of the generator is
\* caught and the error event is sent (74-77); then the stream ends
StreamEnd(r) ==
    /\ run[r].caller = "review_pr_stream"
    /\ ~run[r].host.returned
    /\ run[r].pc \in EndPcs
    /\ SetRun(r, [run[r] EXCEPT
            !.host = [NoHostResult EXCEPT !.returned = TRUE, !.success = (run[r].pc = "closed")],
            !.stream = StreamProgress(run[r])
                       \o << IF run[r].pc = "closed"
                             THEN log_message("Review completed successfully", "complete")
                             ELSE log_message("Error", "error") >>])
    /\ UNCHANGED <<state, report_analyzer, openai_api_key, probe>>

\* api.py is not imported without OPENAI_API_KEY (19-23); main.py has no such test
InitHosts ==
    /\ state = [pr_url |-> None, repo_name |-> None, pr_number |-> NoneInt, status |-> "ready"]
    /\ report_analyzer = ReportAnalyzerState
    /\ openai_api_key \in BOOLEAN
    /\ run \in [{1} -> {NewRunBy(u, h) : u \in RunUrls, h \in Hosts}]
    /\ \A r \in DOMAIN run : run[r].caller # "main" => openai_api_key
    /\ probe = NoProbe

NextHosts ==
    \/ Next
    \/ \E r \in DOMAIN run : ApiReview(r)
    \/ \E r \in DOMAIN run : Main(r)
    \/ \E r \in DOMAIN run : StreamEnd(r)

\* one request to one of the hosts
SpecHosts == InitHosts /\ [][NextHosts]_vars

(***************************************************************************)
(* The stages driven on their own: a message of any kind handed to         *)
(* FileAnalyzer.process_message or to LanguageExpert.process_message, and  *)
(* the helpers of utils/github_utils.py called on their own.               *)
(***************************************************************************)
MessageTypes == {"file_analysis", "review_request", "review", "report", "error"}

\* the messages handed to the Classifier
ClassifierMessages ==
    { Message("file_analysis", [files |-> fs, pr_number |-> 42], "orchestrator") :
        fs \in FileLists(AllPaths, MaxClassifierFiles) }
    \cup { Message(t, [files |-> <<"src/app.py">>, pr_number |-> 42], "orchestrator") :
             t \in MessageTypes \ {"file_analysis"} }
    \cup { Message("file_analysis", [pr_number |-> 42], "orchestrator") }

\* a dict with the keys of d for which the value is given
Given(d) == [k \in {k \in DOMAIN d : d[k].given} |-> d[k].v]

\* the messages handed to a Dispatcher: every kind, each field absent, None,
\* empty or filled
ExpertMessages ==
    { Message(t,
              Given([file_path |-> [given |-> fp # "absent", v |-> fp],
                     file_content |-> [given |-> fc # "absent", v |-> fc],
                     pr_number |-> [given |-> TRUE, v |-> pn]]),
              "orchestrator") :
        t \in {"review_request", "file_analysis", "review"},
        pn \in PrNumbers,
        fp \in {"absent", None, "", "src/app.py", "src/util.py"},
        fc \in {"absent", None, "", "print(1)"} }

\* the extensions a Dispatcher is made for
ProbeExtensions == {".py", ".xyz"}

\* the most messages handed to one Dispatcher
MaxExpertCalls == 2

\* the calls post_pr_comment makes on the source-control client, in order
PostSteps == <<"get_repo", "get_pull", "create_issue_comment">>

\* how a call on the client fails: a GithubException with an HTTP status, or
\* another exception
ClientFailures ==
    { [kind |-> "GithubException", status |-> s] : s \in {403, 404, 422} }
    \cup { [kind |-> "Exception", status |-> 0] }

\* post_pr_comment, were the 403 answer raised like every other failure
post_pr_comment_RaisesAll(repo_name, pr_number, comment, failAt, failure) ==
    IF failAt = 0
    THEN [returned |-> "comment.html_url", raised |-> FALSE, level |-> "info", calls |-> PostSteps]
    ELSE [returned |-> None, raised |-> TRUE, level |-> "error",
          calls |-> SubSeq(PostSteps, 1, failAt)]

\* post_pr_comment(github_client, repo_name, pr_number, comment), call failAt of
\* PostSteps failing with `failure` (no call failing when failAt = 0): what it
\* returns, whether it raises, the level of its last log record, the calls made
post_pr_comment(repo_name, pr_number, comment, failAt, failure) ==
    IF failAt = 0
    THEN [returned |-> "comment.html_url", raised |-> FALSE, level |-> "info", calls |-> PostSteps]
    ELSE IF failure.kind = "GithubException" /\ failure.status = 403
    THEN [returned |-> None, raised |-> FALSE, level |-> "info",
          calls |-> SubSeq(PostSteps, 1, failAt)]
    ELSE [returned |-> None, raised |-> TRUE, level |-> "error",
          calls |-> SubSeq(PostSteps, 1, failAt)]

\* the repositories named to the helpers
ProbeRepos == {"acme/widgets", "other/lib"}

InitStages ==
    /\ state = [pr_url |-> None, repo_name |-> None, pr_number |-> NoneInt, status |-> "ready"]
    /\ report_analyzer = ReportAnalyzerState
    /\ openai_api_key = TRUE
    /\ run = <<>>
    /\ \/ \E m \in ClassifierMessages :
            probe = [agent |-> "file_analyzer", message |-> m, out |-> <<>>, count |-> 0]
       \/ \E ext \in ProbeExtensions :
            probe = [agent |-> "language_expert", st |-> LanguageExpertState(ext),
                     before |-> LanguageExpertState(ext),
                     message |-> NoMessage, out |-> NoMessage, raised |-> FALSE,
                     calls |-> <<>>, failAt |-> 0, count |-> 0]
       \/ \E repo_name \in ProbeRepos, pr_number \in PrNumbers :
            probe = [agent |-> "post_pr_comment", repo_name |-> repo_name,
                     pr_number |-> pr_number, failAt |-> 0,
                     failure |-> [kind |-> "Exception", status |-> 0],
                     out |-> [returned |-> None, raised |-> FALSE, level |-> "info", calls |-> <<>>],
                     count |-> 0]

       \/ \E u \in DOMAIN UrlParts :
            probe = [agent |-> "extract_repo_info", pr_url |-> u,
                     out |-> [raised |-> FALSE, owner |-> None, repo |-> None,
                              pr_number |-> NoneInt],
                     count |-> 0]

\* FileAnalyzer.process_message(message)
Classify ==
    /\ probe.agent = "file_analyzer"
    /\ probe.count = 0
    /\ probe' = [probe EXCEPT !.out = FileAnalyzer_process_message(probe.message), !.count = 1]
    /\ UNCHANGED <<state, report_analyzer, openai_api_key, run>>

\* LanguageExpert.process_message(message), the model client answering or failing
ExpertProcess ==
    /\ probe.agent = "language_expert"
    /\ probe.count < MaxExpertCalls
    /\ \E m \in ExpertMessages, failAt \in ModelOutcomes :
         LET res == LanguageExpert_process_message(probe.st, m, failAt)
         IN  probe' = [probe EXCEPT !.before = probe.st, !.st = res.state, !.message = m,
                                    !.out = res.msg, !.raised = res.raised, !.calls = res.calls,
                                    !.failAt = failAt,
                                    !.count = @ + 1]
    /\ UNCHANGED <<state, report_analyzer, openai_api_key, run>>

\* post_pr_comment(client, repo_name, pr_number, report), the client answering
\* or failing at one of its calls
PostComment ==
    /\ probe.agent = "post_pr_comment"
    /\ probe.count = 0
    /\ \E failAt \in 0..Len(PostSteps), failure \in ClientFailures :
         probe' = [probe EXCEPT !.failAt = failAt, !.failure = failure,
                                !.out = post_pr_comment(probe.repo_name, probe.pr_number,
                                                        "report", failAt, failure),
                                !.count = 1]
    /\ UNCHANGED <<state, report_analyzer, openai_api_key, run>>

\* extract_repo_info(pr_url)
ExtractRepoInfo ==
    /\ probe.agent = "extract_repo_info"
    /\ probe.count = 0
    /\ probe' = [probe EXCEPT !.out = extract_repo_info(probe.pr_url), !.count = 1]
    /\ UNCHANGED <<state, report_analyzer, openai_api_key, run>>

NextStages == Classify \/ ExpertProcess \/ PostComment \/ ExtractRepoInfo

SpecStages == InitStages /\ [][NextStages]_vars

(***************************************************************************)
(* Reading a run's trace.                                                  *)
(***************************************************************************)
Log(r) == run[r].log

IsYield(e, a) == e.k = "yield" /\ e.a = a

IsCall(e, a) == e.k = "call" /\ e.a = a

\* the positions of the trace at which an event or a call of a given name stands
Positions(r, k, a) == { i \in DOMAIN Log(r) : Log(r)[i].k = k /\ Log(r)[i].a = a }

Fetches(r, f) == { i \in DOMAIN Log(r) : IsCall(Log(r)[i], "get_pr_file_content") /\ Log(r)[i].f = f }

Dispatches(r, f) ==
    { i \in DOMAIN Log(r) : IsCall(Log(r)[i], "LanguageExpert.process_message") /\ Log(r)[i].f = f }

\* the kept files in the order the run takes them: group after group
RECURSIVE Flatten(_)
Flatten(groups) == IF groups = <<>> THEN <<>> ELSE Head(groups).val \o Flatten(Tail(groups))

\* a per-file failure: the Dispatcher answered with an Error message, or the
\* processing of the file raised
PerFileFailure(e) ==
    \/ IsCall(e, "LanguageExpert.process_message") /\ e.res \in {"error", "raised"}
    \/ IsCall(e, "ReportAnalyzer.process_message") /\ e.res = "raise"

\* an error event that names file f
ErrorEventFor(e, f) ==
    e.k = "yield" /\ e.a \in {"Error analyzing", "Error processing"} /\ e.f = f

\* C1: per-file failure isolation.  Whenever the Dispatcher returns an Error
\* message for a file or the processing of the file raises, the run is not
\* aborted; an error event naming the file follows in the progress sequence; and
\* when the run has ended, every later file of the same group and of every later
\* group has had its content fetched and, its content obtained, has been
\* submitted to the Dispatcher of its group.
C1_FailureIsolation ==
    \A r \in DOMAIN run :
        \A i \in DOMAIN Log(r) :
            PerFileFailure(Log(r)[i]) =>
                /\ run[r].pc \notin {"y_error", "raised"}
                /\ \E j \in DOMAIN Log(r) : j > i /\ ErrorEventFor(Log(r)[j], Log(r)[i].f)
                /\ run[r].pc = "closed" =>
                     LET order == Flatten(run[r].groups)
                     IN  \A a, b \in DOMAIN order :
                            (order[a] = Log(r)[i].f /\ a < b) =>
                                \E j \in Fetches(r, order[b]) :
                                    /\ j > i
                                    /\ Log(r)[j].res = "ok" =>
                                         \E k \in Dispatches(r, order[b]) :
                                            /\ k > j
                                            /\ Log(r)[k].ext = get_file_extension(order[b])

\* C1 happens: a run has ended in which the Dispatcher failed on src/app.py and
\* the processing of src/util.py raised, and src/util.py (same group) and web/x.js
\* (a later group) were submitted after the first failure.
C1_Witness ==
    \E r \in DOMAIN run :
        /\ run[r].pc = "closed"
        /\ \E i \in Dispatches(r, "src/app.py") :
              /\ Log(r)[i].res = "error"
              /\ \E j \in Dispatches(r, "src/util.py"), k \in Dispatches(r, "web/x.js") :
                    i < j /\ j < k
              /\ \E m \in DOMAIN Log(r) :
                    /\ IsCall(Log(r)[m], "ReportAnalyzer.process_message")
                    /\ Log(r)[m].res = "raise"
                    /\ Log(r)[m].f = "src/util.py"

\* a path with an excluded extension or an excluded directory segment
HasExcludedExtension(p) == LowerExt(p) \in excluded_extensions

HasExcludedSegment(p) ==
    \E i \in 1..Len(PathParts[p]) : LowerSegment(p, i) \in excluded_directories

\* the calls that construct or invoke a Dispatcher, fetch content or reach the model
ReviewWork ==
    {"LanguageExpert", "LanguageExpert.process_message", "get_pr_file_content", "openai"}

ClassifierCalls(r) ==
    { i \in DOMAIN Log(r) : IsCall(Log(r)[i], "FileAnalyzer.process_message") }

\* C2: when the changed-file list is not empty and every path in it has an
\* excluded extension or an excluded directory segment, the Classifier returns
\* exactly one message, the Error "No relevant files found"; the run yields it
\* as an event and goes to its end without constructing or invoking a
\* Dispatcher, fetching content or calling the model.
C2_AllExcludedEndsRun ==
    \A r \in DOMAIN run :
        ( /\ run[r].files # <<>>
          /\ \A i \in DOMAIN run[r].files :
                HasExcludedExtension(run[r].files[i]) \/ HasExcludedSegment(run[r].files[i]) )
        =>
        /\ Cardinality(ClassifierCalls(r)) = 1
        /\ \A i \in ClassifierCalls(r) :
              Log(r)[i].data =
                << Message("error", [error |-> "No relevant files found"], "file_analyzer") >>
        /\ \E i \in DOMAIN Log(r) :
              /\ IsYield(Log(r)[i], "Error during file analysis")
              /\ Log(r)[i].res = "No relevant files found"
        /\ \A i \in DOMAIN Log(r) : ~(Log(r)[i].k = "call" /\ Log(r)[i].a \in ReviewWork)
        /\ run[r].pc \in {"y_fa_error", "y_completed", "closed"}

\* C2 happens: a run whose changed files were logo.png and node_modules/x.js has ended.
C2_Witness ==
    \E r \in DOMAIN run :
        /\ run[r].files = <<"logo.png", "node_modules/x.js">>
        /\ run[r].pc = "closed"

(***************************************************************************)
(* The Classifier on its own (SpecStages).                                 *)
(***************************************************************************)
\* the Classifier has answered a FileAnalysis message whose filtered set is not empty
Classified ==
    /\ probe.agent = "file_analyzer"
    /\ probe.count = 1
    /\ probe.message.type = "file_analysis"
    /\ relevant_files(Get(probe.message.content, "files", <<>>)) # <<>>

InputFiles == Get(probe.message.content, "files", <<>>)

\* the mapping the Classifier returned
Groups == probe.out[1].content.files_by_language

\* the (group, place) pairs at which a file stands in the mapping
Places(groups, f) ==
    { <<g, k>> \in (DOMAIN groups) \X (1..MaxClassifierFiles + 1) :
        k \in DOMAIN groups[g].val /\ groups[g].val[k] = f }

InSeq(q, e) == \E i \in DOMAIN q : q[i] = e

\* C3: when the filtered set is not empty the Classifier returns one FileAnalysis
\* message whose files_by_language partitions the filtered set: every surviving
\* file stands at exactly one place, in the group of its own lower-cased
\* extension; every file of every group is a surviving input file; no two groups
\* share a key; and the groups hold as many files as survived.
C3_GroupsPartitionFiltered ==
    Classified =>
        /\ Len(probe.out) = 1
        /\ probe.out[1].type = "file_analysis"
        /\ \A i \in DOMAIN InputFiles :
              IF is_relevant_file(InputFiles[i])
              THEN /\ Cardinality(Places(Groups, InputFiles[i])) = 1
                   /\ \A pl \in Places(Groups, InputFiles[i]) :
                         Groups[pl[1]].key = LowerExt(InputFiles[i])
              ELSE Places(Groups, InputFiles[i]) = {}
        /\ \A g \in DOMAIN Groups :
              /\ Groups[g].val # <<>>
              /\ \A k \in DOMAIN Groups[g].val :
                    /\ InSeq(InputFiles, Groups[g].val[k])
                    /\ is_relevant_file(Groups[g].val[k])
        /\ \A g, h \in DOMAIN Groups : g # h => Groups[g].key # Groups[h].key
        /\ Len(Flatten(Groups)) = Len(relevant_files(InputFiles))

\* C3 happens: the Classifier has grouped a list with two files of one extension,
\* one of another and a filtered-out file.
C3_Witness ==
    /\ Classified
    /\ InputFiles = <<"src/app.py", "logo.png", "web/x.js", "src/util.py">>
    /\ Len(Groups) = 2

\* the place of a file in the input list
Pos(q, e) == CHOOSE i \in DOMAIN q : q[i] = e

\* C4: the groups stand in the order in which their first surviving file occurs
\* in the input list, and the files of a group stand in their input order.
C4_InputOrderKept ==
    Classified =>
        /\ \A g, h \in DOMAIN Groups :
              g < h => Pos(InputFiles, Groups[g].val[1]) < Pos(InputFiles, Groups[h].val[1])
        /\ \A g \in DOMAIN Groups :
              \A j, k \in DOMAIN Groups[g].val :
                  j < k => Pos(InputFiles, Groups[g].val[j]) < Pos(InputFiles, Groups[g].val[k])
        /\ \A g \in DOMAIN Groups :
              \A i \in DOMAIN InputFiles :
                  ( is_relevant_file(InputFiles[i]) /\ LowerExt(InputFiles[i]) = Groups[g].key )
                    => Pos(InputFiles, Groups[g].val[1]) <= i

\* C4 happens: the Classifier has grouped web/x.js, src/app.py, app.min.js (in that
\* order, with a filtered-out file among them) into .js before .py.
C4_Witness ==
    /\ Classified
    /\ InputFiles = <<"web/x.js", "src/app.py", "logo.png", "app.min.js">>
    /\ DictKeys(Groups) = <<".js", ".py">>
    /\ Groups[1].val = <<"web/x.js", "app.min.js">>

\* the Classifier has answered a FileAnalysis message
ClassifierAnswered ==
    /\ probe.agent = "file_analyzer"
    /\ probe.count = 1
    /\ probe.message.type = "file_analysis"

\* the Classifier kept file f: it stands in a group of the mapping returned
Kept(f) == probe.out[1].type = "file_analysis" /\ Places(Groups, f) # {}

ExpertAnswered == probe.agent = "language_expert" /\ probe.count > 0

\* a field of the request is missing: no such key, None, or the empty string
MissingField(content, key) == key \notin DOMAIN content \/ content[key] \in {None, ""}

\* C6: a Dispatcher handed a ReviewRequest whose file_path or file_content is
\* missing or empty returns an Error message, makes no request to the model
\* client, and leaves its state (reviewed_files, reviews) as it was.
C6_MissingFieldsNoModelCall ==
    ( /\ ExpertAnswered
      /\ probe.message.type = "review_request"
      /\ \/ MissingField(probe.message.content, "file_path")
         \/ MissingField(probe.message.content, "file_content") )
    =>
    /\ ~probe.raised
    /\ probe.out.type = "error"
    /\ probe.out.content.error = "Missing file path or content"
    /\ probe.calls = <<>>
    /\ probe.st = probe.before

\* C6 happens: a Dispatcher that had reviewed src/app.py was handed a request for
\* src/util.py without file_content, the model client ready to answer.
C6_Witness ==
    /\ ExpertAnswered
    /\ probe.message.type = "review_request"
    /\ "file_content" \notin DOMAIN probe.message.content
    /\ Get(probe.message.content, "file_path", None) = "src/util.py"
    /\ probe.failAt = 0
    /\ probe.before.reviewed_files = <<"src/app.py">>
    /\ probe.out.type = "error"

\* the request has both fields
WellFormedRequest ==
    /\ probe.message.type = "review_request"
    /\ ~MissingField(probe.message.content, "file_path")
    /\ ~MissingField(probe.message.content, "file_content")

\* C7: every call of LanguageExpert.process_message returns one message and
\* raises nothing; when one of the three model requests fails it returns an
\* Error message with the failure's description, having made no request past the
\* failing one, and a Review is returned only when all three were answered.
C7_OneMessageNeverRaises ==
    ExpertAnswered =>
        /\ ~probe.raised
        /\ probe.out.type \in {"review", "error"}
        /\ (WellFormedRequest /\ probe.failAt # 0) =>
              /\ probe.out.type = "error"
              /\ probe.out.content.error = ModelFailure
              /\ Len(probe.calls) = probe.failAt
        /\ probe.out.type = "review" =>
              /\ WellFormedRequest
              /\ probe.failAt = 0
              /\ probe.calls = ModelCallNames

\* C7 happens: on a well-formed request the second model request (the
\* best-practice check) failed and the Dispatcher returned an Error message.
C7_Witness ==
    /\ ExpertAnswered
    /\ WellFormedRequest
    /\ probe.failAt = 2
    /\ probe.calls = <<"review", "best_practices">>
    /\ probe.out.type = "error"
    /\ ~probe.raised

(***************************************************************************)
(* The run as its caller sees it (Spec).                                   *)
(***************************************************************************)
\* C8: a run whose pr_url does not match github.com/<owner>/<repo>/pull/<number>
\* fails at once and calls nothing: not the source-control client, not the
\* Classifier, no Dispatcher, not the model client.
C8_NonMatchingUrlMakesNoCall ==
    \A r \in DOMAIN run :
        ~UrlMatches(run[r].pr_url) =>
            /\ \A i \in DOMAIN Log(r) : Log(r)[i].k # "call"
            /\ run[r].pc \in {"created", "y_init", "y_extract", "y_error", "raised"}

RunLevelCalls == {"get_repo", "get_pull", "get_files", "LanguageExpert"}

ReviewedSome(r) ==
    \E i \in DOMAIN Log(r) :
        IsCall(Log(r)[i], "LanguageExpert.process_message") /\ Log(r)[i].res = "review"

C11_EndedRunLeavesTerminalStatus ==
    \A r \in DOMAIN run :
        /\ run[r].pc = "closed" => state.status = "done"
        /\ run[r].pc = "raised" => state.status \notin {"ready", "reviewing", "done"}

(***************************************************************************)
(* The empty changed-file list (Spec).                                     *)
(***************************************************************************)
\* the source-control client listed the files of run r, and there were none
EmptyFileList(r) ==
    /\ \E i \in DOMAIN Log(r) : IsCall(Log(r)[i], "get_files") /\ Log(r)[i].res = "ok"
    /\ run[r].files = <<>>

ErrorEvents ==
    {"Error during PR review", "Error during file analysis", "Error generating report",
     "Error analyzing", "Error processing"}

AgentCalls == {"FileAnalyzer.process_message", "LanguageExpert", "LanguageExpert.process_message"}

\* C12: when the source-control client returns an empty changed-file list the
\* run ends normally: its last event is the informational "No files found to
\* analyze", it emits no error event, raises nothing, and calls neither the
\* Classifier nor any Dispatcher.
C12_EmptyListEndsQuietly ==
    \A r \in DOMAIN run :
        EmptyFileList(r) =>
            /\ run[r].pc \in {"y_nofiles", "closed"}
            /\ Log(r)[Len(Log(r))] = Yield("No files found to analyze", "", "", 0, "")
            /\ \A i \in DOMAIN Log(r) :
                 /\ ~(Log(r)[i].k = "yield" /\ Log(r)[i].a \in ErrorEvents)
                 /\ ~(Log(r)[i].k = "call" /\ Log(r)[i].a \in AgentCalls)

C12_Witness ==
    \E r \in DOMAIN run :
        /\ EmptyFileList(r)
        /\ run[r].pc = "closed"
        /\ Cardinality(Positions(r, "yield", "No files found to analyze")) = 1

(***************************************************************************)
(* Two interleaved runs on one orchestrator (SpecTwoRuns).                 *)
(***************************************************************************)
\* C13: the pull-request context of a run is its own for the whole run: every
\* content fetch a run makes names the repository and the number of the run's
\* own pr_url, and every ReviewRequest it issues carries the run's own number,
\* however the two runs are interleaved at their suspension points.
C13_RunKeepsItsOwnContext ==
    \A r \in DOMAIN run :
        \A i \in DOMAIN Log(r) :
            /\ IsCall(Log(r)[i], "get_pr_file_content") =>
                 /\ Log(r)[i].repo = extract_repo_name(run[r].pr_url)
                 /\ Log(r)[i].n = extract_pr_number(run[r].pr_url)
            /\ IsCall(Log(r)[i], "LanguageExpert.process_message") =>
                 Log(r)[i].n = extract_pr_number(run[r].pr_url)

(***************************************************************************)
(* The report of a run (Spec).                                             *)
(***************************************************************************)
\* the files whose Review the Aggregator merged before position i of the trace,
\* in the order in which it received them
RECURSIVE MergedBefore(_, _)
MergedBefore(r, i) ==
    IF i <= 1 THEN <<>>
    ELSE LET e == Log(r)[i - 1]
         IN  IF IsCall(e, "ReportAnalyzer.process_message") /\ e.res = "report"
             THEN Append(MergedBefore(r, i - 1), e.f)
             ELSE MergedBefore(r, i - 1)

\* C14: every report the run emits holds the findings of all the files whose
\* Review the Aggregator has merged so far, in the order in which it received
\* them; and two files of one extension stand in it in their input order.
C14_ReportKeepsArrivalOrder ==
    \A r \in DOMAIN run :
        \A i \in Positions(r, "yield", "review") :
            LET report == Log(r)[i].data
            IN  /\ report = MergedBefore(r, i)
                /\ \A a, b \in DOMAIN report :
                     (a < b /\ get_file_extension(report[a]) = get_file_extension(report[b]))
                         => Pos(run[r].files, report[a]) < Pos(run[r].files, report[b])

\* C14 happens: both files of a group of two were reviewed and merged, and the
\* last report holds both
C14_Witness ==
    \E r \in DOMAIN run :
        /\ run[r].pc = "closed"
        /\ run[r].files = <<"src/app.py", "src/util.py">>
        /\ \E i \in Positions(r, "yield", "review") :
              /\ Log(r)[i].data = <<"src/app.py", "src/util.py">>
              /\ \A j \in Positions(r, "yield", "review") : j <= i

(***************************************************************************)
(* Fetching file content (Spec).                                           *)
(***************************************************************************)
\* C15: content is fetched lazily.  get_pr_file_content is called only for a
\* path of the pull request that the Classifier kept, at most once for a path,
\* and only after the Classifier was called; a fetch that obtained content is
\* followed at once by the "Analyzing" event and the Dispatcher call for that
\* file, and every Dispatcher call stands directly behind the fetch of its file.
C15_ContentFetchedLazily ==
    \A r \in DOMAIN run :
        /\ \A i \in Positions(r, "call", "get_pr_file_content") :
             LET f == Log(r)[i].f
             IN  /\ InSeq(run[r].files, f)
                 /\ is_relevant_file(f)
                 /\ Fetches(r, f) = {i}
                 /\ \E c \in Positions(r, "call", "FileAnalyzer.process_message") : c < i
                 /\ Log(r)[i].res = "ok" =>
                      /\ i + 1 <= Len(Log(r))
                      /\ Log(r)[i + 1] = Yield("Analyzing", f, "", 0, "")
                      /\ i + 2 <= Len(Log(r)) => i + 2 \in Dispatches(r, f)
                 /\ Log(r)[i].res # "ok" => Dispatches(r, f) = {}
        /\ \A d \in Positions(r, "call", "LanguageExpert.process_message") :
             /\ d > 2
             /\ d - 2 \in Fetches(r, Log(r)[d].f)
             /\ Log(r)[d - 2].res = "ok"

\* C15 happens: of a pull request with a kept and a filtered-out file, the run
\* has ended having fetched the kept one only, and having submitted it
C15_Witness ==
    \E r \in DOMAIN run :
        /\ run[r].pc = "closed"
        /\ run[r].files = <<"logo.png", "src/app.py">>
        /\ Fetches(r, "logo.png") = {}
        /\ Cardinality(Fetches(r, "src/app.py")) = 1
        /\ Cardinality(Dispatches(r, "src/app.py")) = 1

(***************************************************************************)
(* The Dispatchers of a run (Spec).                                        *)
(***************************************************************************)
\* the extensions of the files of run r that the Classifier kept
KeptExtensions(r) ==
    { get_file_extension(run[r].files[i]) :
        i \in { k \in DOMAIN run[r].files : is_relevant_file(run[r].files[k]) } }

\* the positions at which run r constructed a Dispatcher for extension ext
Constructed(r, ext) ==
    { i \in Positions(r, "call", "LanguageExpert") : Log(r)[i].ext = ext /\ Log(r)[i].res = "ok" }

\* C16: a run constructs a Dispatcher only for the extension of a kept file and
\* never two for one extension; every file is submitted to the Dispatcher that
\* was constructed for its own extension; and a run that has ended has
\* constructed exactly one Dispatcher for each extension of its kept files.
C16_OneDispatcherPerExtension ==
    \A r \in DOMAIN run :
        /\ \A i \in Positions(r, "call", "LanguageExpert") :
             /\ Log(r)[i].ext \in KeptExtensions(r)
             /\ Cardinality(Constructed(r, Log(r)[i].ext)) <= 1
        /\ \A d \in Positions(r, "call", "LanguageExpert.process_message") :
             /\ Log(r)[d].ext = get_file_extension(Log(r)[d].f)
             /\ \E c \in Constructed(r, Log(r)[d].ext) :
                  /\ c < d
                  /\ \A j \in Positions(r, "call", "LanguageExpert") : j < d => j <= c
        /\ run[r].pc \in EndPcs =>
             \A ext \in KeptExtensions(r) : Cardinality(Constructed(r, ext)) = 1

(***************************************************************************)
(* End to end (Spec).                                                      *)
(***************************************************************************)
ScenarioFiles == <<"src/app.py", "logo.png", "node_modules/x.js">>

\* no call of run r failed: none raised, every fetch obtained content, the
\* Dispatcher answered with a Review and the Aggregator with a Report
AllCallsSucceeded(r) ==
    \A i \in DOMAIN Log(r) :
        Log(r)[i].k = "call" => Log(r)[i].res \notin {"raised", "none", "error", "raise"}

\* C17: for the changed files src/app.py, logo.png, node_modules/x.js the
\* Classifier answers with the one group .py -> [src/app.py]; and when the run
\* has ended with every call having succeeded, exactly one Dispatcher was
\* constructed (for .py), exactly one file was fetched, reviewed and reported,
\* and the last event is "Review completed successfully".
C17_EndToEndScenario ==
    \A r \in DOMAIN run :
        run[r].files = ScenarioFiles =>
            /\ \A c \in Positions(r, "call", "FileAnalyzer.process_message") :
                 /\ Len(Log(r)[c].data) = 1
                 /\ Log(r)[c].data[1].type = "file_analysis"
                 /\ Log(r)[c].data[1].content.files_by_language
                      = << [key |-> ".py", val |-> <<"src/app.py">>] >>
            /\ (run[r].pc \in EndPcs /\ AllCallsSucceeded(r)) =>
                 /\ Cardinality(Positions(r, "call", "LanguageExpert")) = 1
                 /\ Cardinality(Constructed(r, ".py")) = 1
                 /\ Cardinality(Positions(r, "call", "get_pr_file_content")) = 1
                 /\ Cardinality(Positions(r, "call", "LanguageExpert.process_message")) = 1
                 /\ Cardinality(Dispatches(r, "src/app.py")) = 1
                 /\ \A i \in Positions(r, "yield", "review") : Log(r)[i].data = <<"src/app.py">>
                 /\ Cardinality(Positions(r, "yield", "review")) = 1
                 /\ run[r].pc = "closed"
                 /\ Log(r)[Len(Log(r))] = Yield("Review completed successfully", "", "", 0, "")

C17_Witness ==
    \E r \in DOMAIN run :
        /\ run[r].files = ScenarioFiles
        /\ run[r].pc = "closed"
        /\ AllCallsSucceeded(r)
        /\ state.status = "done"
        /\ Cardinality(Positions(r, "yield", "Analyzing")) = 1

(***************************************************************************)
(* Posting the review output (SpecStages).                                 *)
(***************************************************************************)
Posted == probe.agent = "post_pr_comment" /\ probe.count > 0

PermissionDenied ==
    probe.failAt # 0 /\ probe.failure = [kind |-> "GithubException", status |-> 403]

C19_HostDrivesRunToItsEnd ==
    \A r \in DOMAIN run :
        (run[r].caller \in {"main", "review_pr"} /\ run[r].host.returned) =>
            /\ run[r].pc \in EndPcs
            /\ Log(r) # <<>>
            /\ run[r].caller = "review_pr" => run[r].host.report = final_report

(***************************************************************************)
(* Failures of the run (Spec).                                             *)
(***************************************************************************)
\* the events of a trace, in order
RECURSIVE EventsOf(_)
EventsOf(log) ==
    IF log = <<>> THEN <<>>
    ELSE IF Head(log).k = "yield" THEN << Head(log).a >> \o EventsOf(Tail(log))
    ELSE EventsOf(Tail(log))

\* C20: when resolving the pull request (get_repo, get_pull) or listing its
\* files (get_files) fails, the run aborts: the failing call is followed by the
\* event "Error during PR review", which is the last entry of the trace; the
\* events emitted before the failure precede it in the sequence the caller got;
\* and the run calls neither the Classifier nor a Dispatcher nor the model.
C20_RunLevelFailureIsTerminal ==
    \A r \in DOMAIN run :
        \A i \in DOMAIN Log(r) :
            (Log(r)[i].k = "call" /\ Log(r)[i].a \in {"get_repo", "get_pull", "get_files"}
               /\ Log(r)[i].res = "raised") =>
                /\ run[r].pc \in {"y_error", "raised"}
                /\ Len(Log(r)) = i + 1
                /\ Log(r)[i + 1] = Yield("Error during PR review", "", "", 0, "GithubException")
                /\ EventsOf(Log(r)) =
                     <<"Initializing PR Review", "Extracting PR information",
                       "Fetching PR from GitHub">>
                     \o (IF Log(r)[i].a = "get_files" THEN <<"Fetching PR files">> ELSE <<>>)
                     \o <<"Error during PR review">>
                /\ \A j \in DOMAIN Log(r) :
                     Log(r)[j].k = "call" => Log(r)[j].a \in {"get_repo", "get_pull", "get_files"}

\* C20 happens: get_pull raised, the run has ended with the exception, and four
\* events were delivered
C20_Witness ==
    \E r \in DOMAIN run :
        /\ run[r].pc = "raised"
        /\ \E i \in Positions(r, "call", "get_pull") : Log(r)[i].res = "raised"
        /\ Len(EventsOf(Log(r))) = 4

(***************************************************************************)
(* Parsing the pull-request URL (SpecStages).                              *)
(***************************************************************************)
Extracted == probe.agent = "extract_repo_info" /\ probe.count > 0

\* the URL is https://github.com/<owner>/<repo>/pull/<n>, n a decimal number
PullRequestUrl(u) ==
    LET parts == UrlParts[u]
    IN  /\ Len(parts) = 7
        /\ parts[1] = "https:" /\ parts[2] = "" /\ parts[3] = "github.com"
        /\ parts[4] # "" /\ parts[5] # ""
        /\ parts[6] = "pull"
        /\ parts[7] \in DOMAIN IntTable

\* the URL has no segment `pull` followed by a segment that begins with a number
LacksPullNumber(u) ==
    LET parts == UrlParts[u]
    IN  ~\E i \in 1..Len(parts) - 1 : parts[i] = "pull" /\ parts[i + 1] \in StartsWithDigit

\* C21: extract_repo_info maps https://github.com/<owner>/<repo>/pull/<n> to
\* (owner, repo, n), and raises for every URL without the /pull/<n> part.
C21_ExtractRepoInfo ==
    Extracted =>
        /\ PullRequestUrl(probe.pr_url) =>
             /\ ~probe.out.raised
             /\ probe.out.owner = UrlParts[probe.pr_url][4]
             /\ probe.out.repo = UrlParts[probe.pr_url][5]
             /\ probe.out.pr_number = IntTable[UrlParts[probe.pr_url][7]]
        /\ LacksPullNumber(probe.pr_url) => probe.out.raised

\* C21 happens: the URL of acme/widgets' pull request 42 gave (acme, widgets, 42)
C21_Witness ==
    /\ Extracted
    /\ probe.pr_url = "https://github.com/acme/widgets/pull/42"
    /\ probe.out = [raised |-> FALSE, owner |-> "acme", repo |-> "widgets", pr_number |-> 42]

(***************************************************************************)
(* A Dispatcher for an extension outside the table (SpecStages).           *)
(***************************************************************************)
\* the Dispatcher under test was made for extension ext
ExpertFor(ext) == probe.agent = "language_expert" /\ probe.st.agent_id = "language_expert_" \o ext

\* C22: a Dispatcher made for an extension that the extension-to-language table
\* does not hold has the language "Unknown" and an empty best-practice list; and
\* handed a well-formed ReviewRequest, the model answering all requests, it makes
\* the three model requests and returns a Review message, not an Error.
C22_UnknownExtensionStillReviews ==
    \A ext \in ProbeExtensions \ DOMAIN language_map :
        ExpertFor(ext) =>
            /\ probe.st.language = "Unknown"
            /\ load_best_practices(probe.st.language) = <<>>
            /\ (probe.count > 0 /\ WellFormedRequest /\ probe.failAt = 0) =>
                 /\ probe.calls = ModelCallNames
                 /\ ~probe.raised
                 /\ probe.out.type = "review"

\* C22 happens: the Dispatcher for .xyz returned a Review
C22_Witness ==
    /\ ExpertFor(".xyz")
    /\ probe.count > 0
    /\ WellFormedRequest
    /\ probe.failAt = 0
    /\ probe.out.type = "review"
    /\ probe.st.language = "Unknown"

(***************************************************************************)
(* The model requests of one review (SpecStages).                          *)
(***************************************************************************)
\* C23: on a well-formed ReviewRequest the Dispatcher asks the model for the
\* review, then the best-practice check, then the suggestions: all three when
\* each is answered, and none past the first that fails; it returns a Review
\* only when all three were answered, and the Review carries the file_path and
\* the pr_number of the request.
C23_ModelCallsInFixedOrder ==
    (ExpertAnswered /\ WellFormedRequest) =>
        /\ probe.failAt = 0 =>
             /\ probe.calls = <<"review", "best_practices", "suggestions">>
             /\ probe.out.type = "review"
        /\ probe.failAt = 1 => probe.calls = <<"review">>
        /\ probe.failAt = 2 => probe.calls = <<"review", "best_practices">>
        /\ probe.failAt = 3 => probe.calls = <<"review", "best_practices", "suggestions">>
        /\ probe.failAt # 0 => probe.out.type # "review"
        /\ probe.out.type = "review" =>
             /\ probe.out.content.file_path = probe.message.content.file_path
             /\ probe.out.content.pr_number = probe.message.content.pr_number

\* C23 happens: a request for src/util.py of pull request 7 was answered with a
\* Review after three model requests
C23_Witness ==
    /\ ExpertAnswered
    /\ WellFormedRequest
    /\ Len(probe.calls) = 3
    /\ probe.out.type = "review"
    /\ probe.out.content.file_path = "src/util.py"
    /\ probe.out.content.pr_number = 7

(***************************************************************************)
(* A file without content (Spec).                                          *)
(***************************************************************************)
\* the files of run r that come after file f, in the order the run takes them
LaterFiles(r, f) ==
    LET order == Flatten(run[r].groups)
    IN  { order[k] : k \in { j \in DOMAIN order : j > Pos(order, f) } }

\* C24: when get_pr_file_content gives no content for a file (None or the empty
\* text), the run emits no event that names the file, calls neither the
\* Dispatcher nor the Aggregator for it, and goes on: what follows the fetch is
\* the fetch of the next file, the event of the next group or the completion
\* event, and a run that has ended has fetched every later file.
C24_NoContentSkipsSilently ==
    \A r \in DOMAIN run :
        \A i \in Positions(r, "call", "get_pr_file_content") :
            Log(r)[i].res = "none" =>
                LET f == Log(r)[i].f
                IN  /\ \A j \in DOMAIN Log(r) : Log(r)[j].k = "yield" => Log(r)[j].f # f
                    /\ Dispatches(r, f) = {}
                    /\ \A j \in Positions(r, "call", "ReportAnalyzer.process_message") :
                         Log(r)[j].f # f
                    /\ run[r].pc \notin {"y_error", "raised"}
                    /\ i < Len(Log(r)) =>
                         \/ IsCall(Log(r)[i + 1], "get_pr_file_content")
                         \/ IsYield(Log(r)[i + 1], "Processing files")
                         \/ IsYield(Log(r)[i + 1], "Review completed successfully")
                    /\ run[r].pc = "closed" =>
                         \A g \in LaterFiles(r, f) : Fetches(r, g) # {}

\* C24 happens: the first of two files had no content, the second was reviewed,
\* and the run has ended
C24_Witness ==
    \E r \in DOMAIN run :
        /\ run[r].pc = "closed"
        /\ run[r].files = <<"src/app.py", "src/util.py">>
        /\ \E i \in Fetches(r, "src/app.py") : Log(r)[i].res = "none"
        /\ Dispatches(r, "src/app.py") = {}
        /\ Dispatches(r, "src/util.py") # {}

(***************************************************************************)
(* From the Dispatcher to the Aggregator (Spec).                           *)
(***************************************************************************)
\* the positions at which run r handed a message about file f to the Aggregator
Merges(r, f) ==
    { i \in Positions(r, "call", "ReportAnalyzer.process_message") : Log(r)[i].f = f }

\* C25: every Review a Dispatcher returns is handed to the Aggregator exactly
\* once, and at once: between the Dispatcher's call and the Aggregator's there
\* are only the model requests of that review, no event (suspension) and no
\* content fetch; an Error message, or a Dispatcher call that raised, is never
\* followed by a call of the Aggregator for that file.
C25_ReviewGoesStraightToAggregator ==
    \A r \in DOMAIN run :
        \A d \in Positions(r, "call", "LanguageExpert.process_message") :
            LET f == Log(r)[d].f
            IN  /\ Log(r)[d].res = "review" =>
                     /\ Cardinality(Merges(r, f)) = 1
                     /\ \A m \in Merges(r, f) :
                          /\ m > d
                          /\ \A j \in (d + 1)..(m - 1) : IsCall(Log(r)[j], "openai")
                /\ Log(r)[d].res # "review" => Merges(r, f) = {}

\* C25 happens: of two files the first got an Error message and the second a
\* Review, and only the second reached the Aggregator
C25_Witness ==
    \E r \in DOMAIN run :
        /\ run[r].pc = "closed"
        /\ \E d \in Dispatches(r, "src/app.py") : Log(r)[d].res = "error"
        /\ \E d \in Dispatches(r, "src/util.py") : Log(r)[d].res = "review"
        /\ Merges(r, "src/app.py") = {}
        /\ Cardinality(Merges(r, "src/util.py")) = 1

(***************************************************************************)
(* The caller stops consuming (Spec).                                      *)
(***************************************************************************)
\* every Review that run r's Dispatchers have returned was handed to the
\* Aggregator, and the Aggregator's report for the run's pull request holds the
\* merged files in the order of their dispatch
AllReviewsMerged(r) ==
    /\ \A d \in Positions(r, "call", "LanguageExpert.process_message") :
         Log(r)[d].res = "review" =>
             \E m \in Merges(r, Log(r)[d].f) : m > d
    /\ \A m1, m2 \in Positions(r, "call", "ReportAnalyzer.process_message") :
         m1 < m2 =>
             \E d1 \in Dispatches(r, Log(r)[m1].f), d2 \in Dispatches(r, Log(r)[m2].f) :
                 d1 < m1 /\ m1 < d2 /\ d2 < m2
    /\ state.pr_number \in PrNumbers =>
         report_analyzer.final_reports[state.pr_number] = MergedBefore(r, Len(Log(r)) + 1)

\* C26: at every progress event, where the caller may stop consuming, every
\* Review produced so far has been handed to the Aggregator, in dispatch order,
\* and none is waiting; and once the caller has stopped, the run does nothing
\* more: no call, no event, and the Aggregator's reports stay as they are.
C26_CancellationLeavesNothingUnmerged ==
    /\ [](\A r \in DOMAIN run : run[r].pc \in YieldPcs => AllReviewsMerged(r))
    /\ [][\A r \in DOMAIN run :
            run[r].cancelled =>
                /\ run'[r] = run[r]
                /\ report_analyzer' = report_analyzer]_vars

\* C26 happens: the caller stopped at the "Analyzing" event of the second file,
\* the first file's Review being merged
C26_Witness ==
    \E r \in DOMAIN run :
        /\ run[r].cancelled
        /\ run[r].pc = "y_analyzing"
        /\ Cardinality(Positions(r, "call", "ReportAnalyzer.process_message")) = 1
        /\ \E n \in PrNumbers : Len(report_analyzer.final_reports[n]) = 1

(***************************************************************************)
(* The order of the progress events (Spec).                                *)
(***************************************************************************)
FirstEvents ==
    <<"Initializing PR Review", "Extracting PR information", "Fetching PR from GitHub",
      "Fetching PR files">>

\* the position of the last "Processing N <ext> files" event before position j
GroupEventBefore(r, j) ==
    LET before == { g \in Positions(r, "yield", "Processing files") : g < j }
    IN  CHOOSE g \in before : \A h \in before : h <= g

\* C27: the events of a run begin with "Initializing PR Review", "Extracting PR
\* information", "Fetching PR from GitHub", "Fetching PR files", in this order,
\* up to where the run fails; every event that names a file comes after the
\* "Processing N <ext> files" event of the file's group, N being the size of
\* the group; the "Analyzing" events of a group stand in input order; and an
\* error event for a file, and a report that holds the file, come after the
\* file's "Analyzing" event.
C27_ProgressOrdering ==
    \A r \in DOMAIN run :
        LET events == EventsOf(Log(r))
        IN  /\ \A k \in DOMAIN events :
                 k <= Len(FirstEvents) =>
                     \/ events[k] = FirstEvents[k]
                     \/ events[k] = "Error during PR review" /\ k = Len(events)
            /\ \A j \in DOMAIN Log(r) :
                 (Log(r)[j].k = "yield" /\ Log(r)[j].f # "") =>
                     /\ \E g \in Positions(r, "yield", "Processing files") : g < j
                     /\ LET g == GroupEventBefore(r, j)
                        IN  /\ Log(r)[g].ext = get_file_extension(Log(r)[j].f)
                            /\ Log(r)[g].n =
                                 Cardinality({ k \in DOMAIN run[r].files :
                                     /\ is_relevant_file(run[r].files[k])
                                     /\ get_file_extension(run[r].files[k]) = Log(r)[g].ext })
                     /\ Log(r)[j].a # "Analyzing" =>
                          \E a \in Positions(r, "yield", "Analyzing") :
                              a < j /\ Log(r)[a].f = Log(r)[j].f
            /\ \A a1, a2 \in Positions(r, "yield", "Analyzing") :
                 (a1 < a2 /\ get_file_extension(Log(r)[a1].f) = get_file_extension(Log(r)[a2].f))
                     => Pos(run[r].files, Log(r)[a1].f) < Pos(run[r].files, Log(r)[a2].f)
            /\ \A i \in Positions(r, "yield", "review") :
                 \A k \in DOMAIN Log(r)[i].data :
                     \E a \in Positions(r, "yield", "Analyzing") :
                         a < i /\ Log(r)[a].f = Log(r)[i].data[k]

\* C27 happens: a run over a group of two files and a group of one has ended,
\* with three "Analyzing" events and an error event
C27_Witness ==
    \E r \in DOMAIN run :
        /\ run[r].pc = "closed"
        /\ run[r].files = <<"src/app.py", "web/x.js", "src/util.py">>
        /\ Cardinality(Positions(r, "yield", "Processing files")) = 2
        /\ Cardinality(Positions(r, "yield", "Analyzing")) = 3
        /\ Positions(r, "yield", "Error analyzing") # {}

(***************************************************************************)
(* A Dispatcher that cannot be constructed (Spec).                         *)
(***************************************************************************)
\* the positions at which the construction of a Dispatcher failed in run r
FailedConstructions(r) ==
    { i \in Positions(r, "call", "LanguageExpert") : Log(r)[i].res = "raised" }

\* C28: when the construction of the Dispatcher of one extension fails, a run
\* that has ended has reported the failure with an error event, has not ended
\* with an exception, and has gone on to every language group of its kept
\* files.
C28_SetupFailureIsConfined ==
    \A r \in DOMAIN run :
        (FailedConstructions(r) # {} /\ run[r].pc \in EndPcs) =>
            /\ \A i \in FailedConstructions(r) :
                 \E e \in DOMAIN Log(r) :
                     e > i /\ Log(r)[e].k = "yield" /\ Log(r)[e].a \in ErrorEvents
            /\ run[r].pc # "raised"
            /\ \A ext \in KeptExtensions(r) :
                 \E j \in Positions(r, "call", "LanguageExpert") : Log(r)[j].ext = ext

(***************************************************************************)
(* The kinds of message (SpecKinds): a run of review_pr, or a stage driven *)
(* on its own.                                                             *)
(***************************************************************************)
InitKinds == Init \/ InitStages

NextKinds == Next \/ NextStages

SpecKinds == InitKinds /\ [][NextKinds]_vars

\* the first position after i of run r's trace that is not a request to the model
AfterModelCalls(r, i) ==
    CHOOSE j \in DOMAIN Log(r) :
        /\ j > i
        /\ Log(r)[j].a # "openai"
        /\ \A h \in DOMAIN Log(r) : (h > i /\ h < j) => Log(r)[h].a = "openai"

\* C29: the Classifier given a message of another kind than file_analysis
\* returns one Error message, 'Unsupported message type'; the Dispatcher given
\* another kind than review_request returns that Error message without a
\* request to the model and with its state as it was; the Classifier returns
\* only file_analysis and error messages, the Dispatcher only review and error
\* messages; and in a run each message a stage returned is followed by its
\* event: a file_analysis by "Processing file analysis results", a
\* Classifier's error by "Error during file analysis", a Dispatcher's error by
\* "Error analyzing", a review by the Aggregator's call and the event of its
\* answer.
C29_NoKindFallsThrough ==
    /\ (probe.agent = "file_analyzer" /\ probe.count = 1) =>
          /\ Len(probe.out) = 1
          /\ probe.out[1].type \in {"file_analysis", "error"}
          /\ probe.message.type # "file_analysis" =>
                probe.out = << Message("error", [error |-> "Unsupported message type"],
                                       "file_analyzer") >>
    /\ (probe.agent = "language_expert" /\ probe.count > 0) =>
          /\ ~probe.raised
          /\ probe.out.type \in {"review", "error"}
          /\ probe.message.type # "review_request" =>
                /\ probe.out = Message("error", [error |-> "Unsupported message type"],
                                       probe.before.agent_id)
                /\ probe.calls = <<>>
                /\ probe.st = probe.before
    /\ \A r \in DOMAIN run :
          /\ \A i \in Positions(r, "call", "FileAnalyzer.process_message") :
                /\ Len(Log(r)[i].data) = 1
                /\ i + 1 \in DOMAIN Log(r)
                /\ \/ /\ Log(r)[i].data[1].type = "file_analysis"
                      /\ IsYield(Log(r)[i + 1], "Processing file analysis results")
                   \/ /\ Log(r)[i].data[1].type = "error"
                      /\ IsYield(Log(r)[i + 1], "Error during file analysis")
          /\ \A i \in Positions(r, "call", "LanguageExpert.process_message") :
                /\ \E j \in DOMAIN Log(r) : j > i /\ Log(r)[j].a # "openai"
                /\ LET j == AfterModelCalls(r, i)
                   IN  \/ /\ Log(r)[i].res = "error"
                          /\ IsYield(Log(r)[j], "Error analyzing")
                          /\ Log(r)[j].f = Log(r)[i].f
                       \/ /\ Log(r)[i].res = "review"
                          /\ IsCall(Log(r)[j], "ReportAnalyzer.process_message")
                          /\ Log(r)[j].f = Log(r)[i].f
                          /\ j + 1 \in DOMAIN Log(r)
                          /\ Log(r)[j + 1].k = "yield"
                          /\ Log(r)[j + 1].a \in {"review", "Error generating report",
                                                  "Error processing"}

\* C29 happens: a Dispatcher that has reviewed a file is handed a message of
\* another kind with both fields filled, and answers with the Error message
C29_Witness ==
    /\ probe.agent = "language_expert"
    /\ probe.count = 2
    /\ probe.before.reviewed_files # <<>>
    /\ probe.message.type = "file_analysis"
    /\ Get(probe.message.content, "file_path", None) = "src/util.py"
    /\ Get(probe.message.content, "file_content", None) = "print(1)"
    /\ probe.out.type = "error"

(***************************************************************************)
(* The streaming endpoint (SpecHosts).                                     *)
(***************************************************************************)
TerminalTypes == {"complete", "error"}

\* the positions of the terminal events among the events a stream has sent
TerminalEvents(r) == { i \in DOMAIN run[r].stream : run[r].stream[i].type \in TerminalTypes }

\* C30: a stream that has ended has sent exactly one terminal event, 'complete'
\* or 'error', and it is its last event: every event before it is a 'progress'
\* event, the stream's own first and then one for each event of the run; the
\* terminal event is 'complete' exactly when the run's sequence was exhausted
\* and 'error' exactly when the run raised; a stream that has not ended has
\* sent no terminal event.
C30_OneTerminalEvent ==
    \A r \in DOMAIN run :
        run[r].caller = "review_pr_stream" =>
            /\ ~run[r].host.returned => run[r].stream = <<>>
            /\ run[r].host.returned =>
                 LET events == run[r].stream
                     last == events[Len(events)]
                 IN  /\ run[r].pc \in EndPcs
                     /\ events # <<>>
                     /\ TerminalEvents(r) = {Len(events)}
                     /\ SubSeq(events, 1, Len(events) - 1) = StreamProgress(run[r])
                     /\ last.type = "complete" <=> run[r].pc = "closed"
                     /\ last.type = "error" <=> run[r].pc = "raised"
                     /\ run[r].host.success <=> last.type = "complete"

\* C30 happens: a stream has ended with the error event, after the run had
\* found the pull request's number and then raised at the source-control client
C30_Witness ==
    \E r \in DOMAIN run :
        /\ run[r].caller = "review_pr_stream"
        /\ run[r].host.returned
        /\ run[r].pc = "raised"
        /\ run[r].stream[Len(run[r].stream)].type = "error"
        /\ Positions(r, "yield", "Fetching PR from GitHub") # {}
        /\ Positions(r, "yield", "Error during PR review") # {}

====
